---- MODULE Spec2Model ----
(***************************************************************************)
(* The LCD controller and renderer of pyboy/core/lcd.py: the registers     *)
(* LCDC, STAT, LY and LYC, the frame clock, the mode state machine driven  *)
(* by tick, and the renderer that tick calls on every HBlank.  Registers   *)
(* are bytes held as naturals, pixels are 32-bit words held as naturals;   *)
(* bit operations are computed arithmetically.  The renderer's buffers are *)
(* tracked on the rows ScreenRows and the columns 0..MaxCol, video memory  *)
(* on the tiles 0..MaxTiles-1 and OAM on the entries 0..MaxSprites-1; the  *)
(* memory outside is never written and reads as the zero it is built with. *)
(***************************************************************************)
EXTENDS Integers, Sequences, FiniteSets, TLC

VARIABLES
    LCDC,            \* LCD._LCDC.value
    STAT,            \* LCD._STAT.value
    mode,            \* LCD._STAT._mode
    next_stat_mode,  \* LCD.next_stat_mode
    LY,              \* LCD.LY
    LYC,             \* LCD.LYC
    clock,           \* LCD.clock
    clock_target,    \* LCD.clock_target
    frame_done,      \* LCD.frame_done
    double_speed,    \* LCD.double_speed
    interrupt_flag,  \* the value returned by the latest tick call
    processing_ret,  \* the value returned by the latest processing_frame call
    cgb,             \* LCD.cgb, Renderer.cgb
    VRAM0,           \* LCD.VRAM0, tile data bytes of the tracked tiles
    OAM,             \* LCD.OAM, bytes of the tracked entries
    BGP,             \* LCD.BGP.value
    OBP0,            \* LCD.OBP0.value
    OBP1,            \* LCD.OBP1.value
    SCY,             \* LCD.SCY
    SCX,             \* LCD.SCX
    WY,              \* LCD.WY
    WX,              \* LCD.WX
    clearcache,      \* Renderer.clearcache
    tiles_changed0,  \* Renderer.tiles_changed0
    tilecache0,      \* Renderer._tilecache0[palette][row][x]
    spritecache0,    \* Renderer._spritecache0[palette][row][x]
    spritecache1,    \* Renderer._spritecache1[palette][row][x]
    screenbuffer,    \* Renderer._screenbuffer[y][x] on the tracked rows and columns
    scanlineparameters, \* Renderer._scanlineparameters[y] on the tracked rows
    ly_window,       \* Renderer.ly_window
    f,               \* the state file: the values written by save_state, in order
    elapsed,         \* observer: cycles passed to tick since the start of the observed frame
    frames,          \* observer: number of times tick has turned frame_done from false to true
    dwell,           \* observer: cycles ticked with the LCD on since STAT mode last changed
    longticks,       \* observer: number of tick calls longer than a third of a line
    offticks,        \* observer: number of tick calls made while the LCD was off
    sched,           \* observer: cycles added to clock_target since LY last became 144
    calls,           \* observer: number of renderer calls and memory writes made from outside tick
    index_reg,       \* a PaletteIndexRegister: value, auto_inc, index, hl
    palette_mem,     \* PaletteColorRegister.palette_mem of the colour register on that index register
    raised,          \* whether a call has ended in an uncaught exception
    saved,           \* observer: the registers and the scanline log as they were when f was written
    remaining        \* observer: <<cycles_to_mode0() as asked, less the cycles ticked since>>, or <<>>

\* the registers and memory written through the bus
memvars == <<cgb, VRAM0, OAM, BGP, OBP0, OBP1, SCY, SCX, WY, WX>>

\* the renderer
rendvars == <<clearcache, tiles_changed0, tilecache0, spritecache0,
              spritecache1, screenbuffer, scanlineparameters, ly_window>>

obsvars == <<elapsed, frames, dwell, longticks, offticks>>

\* the CGB palette registers, and the exception flag
cgbvars == <<index_reg, palette_mem, raised>>

\* what the calls on the controller's registers leave alone
restvars == <<memvars, cgbvars, f, sched, calls, saved, remaining>>

vars == <<LCDC, STAT, mode, next_stat_mode, LY, LYC, clock, clock_target,
          frame_done, double_speed, interrupt_flag, processing_ret,
          memvars, rendvars, cgbvars, f, obsvars, sched, calls, saved, remaining>>

----------------------------------------------------------------------------
(* Program constants *)

INTR_VBLANK == 1
INTR_LCDC == 2
FRAME_CYCLES == 70224
MODE2_CYCLES == 80
MODE3_CYCLES == 170
MODE0_CYCLES == 206
MODE1_CYCLES == 456
LAST_VISIBLE_LY == 143
VBLANK_LY == 144
LAST_LY == 153
ROWS == 144
COLS == 160
COL0_FLAG == 1
BG_PRIORITY_FLAG == 2
SPRITE_CAP == 10
TILEDATA_BASE == 32768
CGB_NUM_PALETTES == 8


----------------------------------------------------------------------------
(* Bounds of the model *)

\* LYC is drawn from 0..MaxLYC: every line number and values no line reaches
MaxLYC == 155

\* the number of oversized tick calls (longer than one mode) in one behaviour
MaxLongTicks == 2

\* the number of tick calls made while the LCD is off, where durations are measured
MaxOffTicks == 3

\* video memory and the tile caches are tracked on the tiles 0..MaxTiles-1
MaxTiles == 2

\* the framebuffer is tracked on the columns 0..MaxCol
MaxCol == 19

\* OAM is tracked on the entries 0..MaxSprites-1
MaxSprites == 12

\* the number of VRAM and palette writes in one behaviour
MaxWrites == 2

\* the number of lines that are ticked through after the writes begin
MaxLines == 3

----------------------------------------------------------------------------
(* Bit operations on bytes *)

Pow2 == <<1, 2, 4, 8, 16, 32, 64, 128>>

Bit(v, n) == (v \div Pow2[n + 1]) % 2

BitAnd(a, b) ==
      Bit(a, 0) * Bit(b, 0)       + 2 * Bit(a, 1) * Bit(b, 1)
    + 4 * Bit(a, 2) * Bit(b, 2)   + 8 * Bit(a, 3) * Bit(b, 3)
    + 16 * Bit(a, 4) * Bit(b, 4)  + 32 * Bit(a, 5) * Bit(b, 5)
    + 64 * Bit(a, 6) * Bit(b, 6)  + 128 * Bit(a, 7) * Bit(b, 7)

BitOr(a, b) == a + b - BitAnd(a, b)

----------------------------------------------------------------------------
(* Pixels: 32-bit words, held as the 24-bit colour in bits 31..8 (rgb) and *)
(* the low byte (a) where the renderer hides its flags                     *)

\* c << 8
Pixel(c) == [rgb |-> c, a |-> 0]

\* four bytes 0xFF: "Init buffers as white"
BUFFER_INIT == [rgb |-> 16777215, a |-> 255]

HasCol0(pixel) == Bit(pixel.a, 0) = 1

HasBgPriority(pixel) == Bit(pixel.a, 1) = 1

\* pixel |= COL0_FLAG
SetCol0(pixel) == [pixel EXCEPT !.a = BitOr(pixel.a, COL0_FLAG)]

\* pixel &= ~COL0_FLAG
ClearCol0(pixel) == [pixel EXCEPT !.a = BitAnd(pixel.a, 255 - COL0_FLAG)]

\* the rows and columns of the framebuffer that are tracked
ScreenRows == {0, LAST_VISIBLE_LY}

ScreenCols == 0..MaxCol

\* the rows of the tile caches that are tracked: 8 rows per tile
CacheRows == 0..(8 * MaxTiles - 1)

\* the base addresses of the tracked tiles
TileBases == {TILEDATA_BASE + 16 * t : t \in 0..(MaxTiles - 1)}

----------------------------------------------------------------------------
(* LCDCRegister *)

lcd_enable(lcdc) == BitAnd(lcdc, 128)

----------------------------------------------------------------------------
(* STATRegister *)

STATRegister_set_NoMask(stat, value) == value

\* value &= 0b0111_1000; self.value &= 0b1000_0111; self.value |= value
STATRegister_set(stat, value) == BitOr(BitAnd(stat, 135), BitAnd(value, 120))

update_LYC_NoClear(stat, lyc, ly) ==
    IF lyc = ly
    THEN [value |-> BitOr(stat, 4),
          ret |-> IF BitAnd(BitOr(stat, 4), 64) # 0 THEN INTR_LCDC ELSE 0]
    ELSE [value |-> stat, ret |-> 0]

update_LYC_WrongEnable(stat, lyc, ly) ==
    IF lyc = ly
    THEN [value |-> BitOr(stat, 4),
          ret |-> IF BitAnd(BitOr(stat, 4), 32) # 0 THEN INTR_LCDC ELSE 0]
    ELSE [value |-> BitAnd(stat, 251), ret |-> 0]

\* the new STAT value and the interrupt bits returned
update_LYC(stat, lyc, ly) ==
    IF lyc = ly
    THEN [value |-> BitOr(stat, 4),
          ret |-> IF BitAnd(BitOr(stat, 4), 64) # 0 THEN INTR_LCDC ELSE 0]
    ELSE [value |-> BitAnd(stat, 251), ret |-> 0]

set_mode_WrongBit(stat, m, newmode) ==
    IF m = newmode
    THEN [value |-> stat, mode |-> m, ret |-> 0]
    ELSE LET v == BitOr(BitAnd(stat, 252), newmode)
         IN  [value |-> v, mode |-> newmode,
              ret |-> IF newmode # 3 /\ Bit(v, newmode + 4) # 0
                      THEN INTR_LCDC ELSE 0]

\* the new STAT value, the new _mode and the interrupt bits returned
set_mode(stat, m, newmode) ==
    IF m = newmode
    THEN [value |-> stat, mode |-> m, ret |-> 0]
    ELSE LET v == BitOr(BitAnd(stat, 252), newmode)
         IN  [value |-> v, mode |-> newmode,
              ret |-> IF newmode # 3 /\ Bit(v, newmode + 3) # 0
                      THEN INTR_LCDC ELSE 0]

----------------------------------------------------------------------------
(* PaletteRegister, pyboy.utils.color_code *)

\* PaletteRegister.set: the value after the write; it returns whether the
\* value changed
PaletteRegister_set(value, new) == new

PaletteRegister_set_changed(value, new) == value # new

\* self.lookup[x] = (value >> x * 2) & 0b11, kept in step with value by set
PaletteRegister_getcolor(value, i) == (value \div (4 ^ i)) % 4

\* the 2-bit colour code: bit(high, offset) << 1 | bit(low, offset)
color_code(byte1, byte2, offset) == 2 * Bit(byte2, offset) + Bit(byte1, offset)

----------------------------------------------------------------------------
(* Renderer *)

\* the colour palette the DMG renderer is constructed with, for the
\* background and both object palettes
COLOR_PALETTE_ARG == <<16777215, 10066329, 5592405, 0>>

\* [(c << 8) & ~COL0_FLAG for c in color_palette]
color_palette == [i \in 0..3 |-> ClearCol0(Pixel(COLOR_PALETTE_ARG[i + 1]))]

obj0_palette == color_palette

obj1_palette == color_palette

\* lcd.VRAM0[a]
VRAMByte(a) == IF a \in DOMAIN VRAM0 THEN VRAM0[a] ELSE 0

\* the tiles that update_cache decodes: all of them when clearcache is set
DirtyTiles == IF clearcache THEN TileBases ELSE tiles_changed0

\* the colour code of pixel x of cache row y: byte1 = VRAM0[2y], byte2 = VRAM0[2y + 1]
TileCode(y, x) == color_code(VRAMByte(2 * y), VRAMByte(2 * y + 1), 7 - x)

\* the cache entry written for a colour code: the palette colour, with
\* COL0_FLAG set iff the code is 0
DecodedPixel(colors, reg, code) ==
    LET c == colors[PaletteRegister_getcolor(reg, code)]
    IN  IF code = 0 THEN SetCol0(c) ELSE ClearCol0(c)

\* a DMG cache after update_cache: the rows of the dirty tiles are decoded
\* from VRAM0 into palette 0, the others are kept
update_cache(cache, colors, reg) ==
    [p \in DOMAIN cache |->
        [y \in DOMAIN cache[p] |->
            IF p = 0 /\ TILEDATA_BASE + 16 * (y \div 8) \in DirtyTiles
            THEN [x \in 0..7 |-> DecodedPixel(colors, reg, TileCode(y, x))]
            ELSE cache[p][y]]]

\* a DMG cache in which every tile is decoded from the current VRAM0
decoded_cache(colors, reg) ==
    [p \in {0} |->
        [y \in CacheRows |->
            [x \in 0..7 |-> DecodedPixel(colors, reg, TileCode(y, x))]]]

\* PaletteColorRegister.getcolor: the RGB555 word of the palette memory as RGB888
PaletteColorRegister_getcolor(mem, paletteindex, colorindex) ==
    LET cgb_color == mem[paletteindex * 4 + colorindex] % 32768
        red   == (cgb_color % 32) * 8
        green == ((cgb_color \div 32) % 32) * 8
        blue  == ((cgb_color \div 1024) % 32) * 8
    IN  red * 65536 + green * 256 + blue

\* the palette memory as PaletteColorRegister.__init__ fills it
PALETTE_MEM_INIT ==
    [i \in 0..(4 * CGB_NUM_PALETTES - 1) |-> <<7399, 7705, 32305, 8571>>[(i % 4) + 1]]

\* PaletteIndexRegister.__init__(), PaletteColorRegister.__init__(i_reg)
PaletteInit ==
    /\ index_reg = [value |-> 0, auto_inc |-> 0, index |-> 0, hl |-> 0]
    /\ palette_mem = PALETTE_MEM_INIT

\* the entry that CGBRenderer.update_tiles writes for a colour code
cgb_decoded_pixel(mem, p, code) ==
    LET c == Pixel(PaletteColorRegister_getcolor(mem, p, code))
    IN  IF code = 0 THEN SetCol0(c) ELSE ClearCol0(c)

\* a CGB cache of bank 0 in which every tile is decoded from the current VRAM0
cgb_decoded_cache(mem) ==
    [p \in 0..(CGB_NUM_PALETTES - 1) |->
        [y \in CacheRows |->
            [x \in 0..7 |-> cgb_decoded_pixel(mem, p, TileCode(y, x))]]]

\* a CGB cache of bank 1, decoded from a zeroed VRAM1
cgb_decoded_cache1(mem) ==
    [p \in 0..(CGB_NUM_PALETTES - 1) |->
        [y \in CacheRows |-> [x \in 0..7 |-> cgb_decoded_pixel(mem, p, 0)]]]

\* bx, by, wx, wy and tiledata_select as scanline logs them
scanline_parameters == <<SCX, SCY, WX - 7, WY, BitAnd(LCDC, 16)>>

\* ly_window after the increment that scanline(y) makes when the window is drawn
ly_window_inc(y) ==
    IF BitAnd(LCDC, 32) # 0 /\ WY <= y /\ WX - 7 < COLS
    THEN ly_window + 1 ELSE ly_window

\* the tile index of a map byte: (t ^ 0x80) + 128 with signed tile indices
tile_index(t) ==
    IF BitAnd(LCDC, 16) = 0
    THEN (IF t >= 128 THEN t - 128 ELSE t + 128) + 128
    ELSE t

\* the pixel that scanline(y) writes at column x, with ly_window = lw and
\* the tile cache tc; the CGB map attributes are those of a zeroed VRAM1
\* (palette 0, bank 0, no flip, no priority)
scanline_pixel(y, x, lw, tc) ==
    LET wx == WX - 7
    IN  IF BitAnd(LCDC, 32) # 0 /\ WY <= y /\ wx <= x
        THEN LET wmap == IF BitAnd(LCDC, 64) = 0 THEN 6144 ELSE 7168
                 tile_addr == wmap + (((lw \div 8) * 32) % 1024) + (((x - wx) \div 8) % 32)
                 wt == tile_index(VRAMByte(tile_addr))
             IN  tc[0][8 * wt + (lw % 8)][(x - wx) % 8]
        ELSE IF cgb \/ BitAnd(LCDC, 1) # 0
        THEN LET background_offset == IF BitAnd(LCDC, 8) = 0 THEN 6144 ELSE 7168
                 tile_addr == background_offset + ((((y + SCY) \div 8) * 32) % 1024)
                                  + (((x + SCX) \div 8) % 32)
                 bt == tile_index(VRAMByte(tile_addr))
             IN  tc[0][8 * bt + ((y + SCY) % 8)][(x + (SCX % 8)) % 8]
        ELSE color_palette[0]

OAMEntries == 0..(MaxSprites - 1)

\* y = lcd.OAM[n] - 16, x = lcd.OAM[n + 1] - 8, for n = 4i
sprite_y(i) == OAM[4 * i] - 16

sprite_x(i) == OAM[4 * i + 1] - 8

spriteheight == IF BitAnd(LCDC, 4) # 0 THEN 16 ELSE 8

\* the OAM entries that appear on line ly
Intersecting(ly) ==
    {i \in OAMEntries : sprite_y(i) <= ly /\ ly < sprite_y(i) + spriteheight}

sprites_to_render_NoCap(ly) == Intersecting(ly)

\* the entries the OAM scan accepts before it breaks at sprite_count == 10
sprites_to_render(ly) ==
    {i \in Intersecting(ly) :
        Cardinality({j \in Intersecting(ly) : j < i}) < SPRITE_CAP}

\* key_priority(a) < key_priority(b): (x, n) on DMG, (n, x) on CGB
key_before(a, b) ==
    IF cgb THEN a < b
    ELSE \/ sprite_x(a) < sprite_x(b)
         \/ sprite_x(a) = sprite_x(b) /\ a < b

\* sorted(range(sprite_count), key = key_priority)[::-1]
RECURSIVE DrawOrder(_)
DrawOrder(S) ==
    IF S = {} THEN <<>>
    ELSE LET last == CHOOSE a \in S : \A b \in S \ {a} : key_before(b, a)
         IN  <<last>> \o DrawOrder(S \ {last})

\* the pixel of entry i for line ly and column px
sprite_pixel(i, ly, px, sc0, sc1) ==
    LET attributes == OAM[4 * i + 3]
        tileindex == IF spriteheight = 16 THEN BitAnd(OAM[4 * i + 2], 254)
                                          ELSE OAM[4 * i + 2]
        dy == ly - sprite_y(i)
        yy == IF BitAnd(attributes, 64) # 0 THEN spriteheight - dy - 1 ELSE dy
        dx == px - sprite_x(i)
        xx == IF BitAnd(attributes, 32) # 0 THEN 7 - dx ELSE dx
        spritecache == IF cgb
                       THEN IF BitAnd(attributes, 8) # 0
                            THEN sc1[BitAnd(attributes, 7)]
                            ELSE sc0[BitAnd(attributes, 7)]
                       ELSE IF BitAnd(attributes, 16) # 0 THEN sc1[0] ELSE sc0[0]
    IN  spritecache[8 * tileindex + yy][xx]

\* buffer[ly][x] after one sprite pixel is offered to it (ignore_priority = False)
sprite_composite(old, pixel, attributes) ==
    LET spritepriority == BitAnd(attributes, 128) # 0
    IN  IF cgb
        THEN IF BitAnd(LCDC, 1) # 0
             THEN IF HasBgPriority(old)
                  THEN (IF HasCol0(old) THEN pixel ELSE old)
                  ELSE IF spritepriority
                  THEN (IF HasCol0(old) THEN pixel ELSE old)
                  ELSE (IF ~HasCol0(pixel) THEN pixel ELSE old)
             ELSE (IF ~HasCol0(pixel) THEN pixel ELSE old)
        ELSE IF spritepriority
             THEN (IF HasCol0(old) /\ ~HasCol0(pixel) THEN pixel ELSE old)
             ELSE (IF ~HasCol0(pixel) THEN pixel ELSE old)

\* the line after entry i is drawn on it
draw_sprite(row, i, ly, sc0, sc1) ==
    [px \in DOMAIN row |->
        IF sprite_x(i) <= px /\ px < sprite_x(i) + 8 /\ 0 <= px /\ px < COLS
        THEN sprite_composite(row[px], sprite_pixel(i, ly, px, sc0, sc1),
                              OAM[4 * i + 3])
        ELSE row[px]]

RECURSIVE draw_sprites(_, _, _, _, _)
draw_sprites(order, row, ly, sc0, sc1) ==
    IF order = <<>> THEN row
    ELSE draw_sprites(Tail(order), draw_sprite(row, Head(order), ly, sc0, sc1),
                      ly, sc0, sc1)

\* line ly of the buffer after scanline_sprites(lcd, ly, buffer, False)
scanline_sprites(ly, row, sc0, sc1) ==
    IF BitAnd(LCDC, 2) = 0 THEN row
    ELSE draw_sprites(DrawOrder(sprites_to_render(ly)), row, ly, sc0, sc1)

\* the renderer calls in the order scanline(LY), scanline_sprites(LY),
\* update_cache: the line is drawn from the caches as they were
hblank_render_StaleCache ==
    LET tc  == update_cache(tilecache0, color_palette, BGP)
        sc0 == update_cache(spritecache0, obj0_palette, OBP0)
        sc1 == update_cache(spritecache1, obj1_palette, OBP1)
        lw  == ly_window_inc(LY)
        row == scanline_sprites(LY, [x \in ScreenCols |-> scanline_pixel(LY, x, lw, tilecache0)],
                                spritecache0, spritecache1)
    IN  /\ clearcache' = FALSE
        /\ tiles_changed0' = {}
        /\ tilecache0' = tc
        /\ spritecache0' = sc0
        /\ spritecache1' = sc1
        /\ scanlineparameters' = IF LY \in ScreenRows
                                 THEN [scanlineparameters EXCEPT ![LY] = scanline_parameters]
                                 ELSE scanlineparameters
        /\ screenbuffer' = IF LY \in ScreenRows
                           THEN [screenbuffer EXCEPT ![LY] = row]
                           ELSE screenbuffer
        /\ ly_window' = IF LY = LAST_VISIBLE_LY THEN -1 ELSE lw

\* the renderer calls of tick's HBlank branch: update_cache, scanline(LY),
\* scanline_sprites(LY)
hblank_render ==
    LET tc  == update_cache(tilecache0, color_palette, BGP)
        sc0 == update_cache(spritecache0, obj0_palette, OBP0)
        sc1 == update_cache(spritecache1, obj1_palette, OBP1)
        lw  == ly_window_inc(LY)
        row == scanline_sprites(LY, [x \in ScreenCols |-> scanline_pixel(LY, x, lw, tc)],
                                sc0, sc1)
    IN  /\ clearcache' = FALSE
        /\ tiles_changed0' = {}
        /\ tilecache0' = tc
        /\ spritecache0' = sc0
        /\ spritecache1' = sc1
        /\ scanlineparameters' = IF LY \in ScreenRows
                                 THEN [scanlineparameters EXCEPT ![LY] = scanline_parameters]
                                 ELSE scanlineparameters
        /\ screenbuffer' = IF LY \in ScreenRows
                           THEN [screenbuffer EXCEPT ![LY] = row]
                           ELSE screenbuffer
        /\ ly_window' = IF LY = LAST_VISIBLE_LY THEN -1 ELSE lw

\* a call scanline_sprites(lcd, ly, self._screenbuffer, False)
scanline_sprites_call(ly) ==
    /\ screenbuffer' = [screenbuffer EXCEPT
                          ![ly] = scanline_sprites(ly, screenbuffer[ly],
                                                   spritecache0, spritecache1)]
    /\ UNCHANGED <<clearcache, tiles_changed0, tilecache0, spritecache0,
                   spritecache1, scanlineparameters, ly_window>>

blank_screen_Partial ==
    /\ screenbuffer' = [screenbuffer EXCEPT ![0] = [x \in ScreenCols |-> color_palette[0]]]
    /\ UNCHANGED <<clearcache, tiles_changed0, tilecache0, spritecache0,
                   spritecache1, scanlineparameters, ly_window>>

\* every pixel of the buffer becomes color_palette[0]
blank_screen ==
    /\ screenbuffer' = [y \in ScreenRows |-> [x \in ScreenCols |-> color_palette[0]]]
    /\ UNCHANGED <<clearcache, tiles_changed0, tilecache0, spritecache0,
                   spritecache1, scanlineparameters, ly_window>>

\* Renderer.__init__ of the DMG renderer (num_palettes = 1)
RendererInit ==
    /\ clearcache = FALSE
    /\ tiles_changed0 = {}
    /\ tilecache0 = [p \in {0} |-> [y \in CacheRows |-> [x \in 0..7 |-> BUFFER_INIT]]]
    /\ spritecache0 = [p \in {0} |-> [y \in CacheRows |-> [x \in 0..7 |-> BUFFER_INIT]]]
    /\ spritecache1 = [p \in {0} |-> [y \in CacheRows |-> [x \in 0..7 |-> BUFFER_INIT]]]
    /\ screenbuffer = [y \in ScreenRows |-> [x \in ScreenCols |-> BUFFER_INIT]]
    /\ scanlineparameters = [y \in ScreenRows |-> <<0, 0, 0, 0, 0>>]
    /\ ly_window = 0

----------------------------------------------------------------------------
(* LCD *)

Multiplier_Always1 == IF double_speed THEN 1 ELSE 1

\* multiplier = 2 if self.double_speed else 1
Multiplier == IF double_speed THEN 2 ELSE 1

\* HBlank of line 142 already followed by VBlank
HBlankNextMode_Early(ly) == IF ly < LAST_VISIBLE_LY - 1 THEN 2 ELSE 1

HBlankNextMode_Always2(ly) == 2

\* if self.LY < 143: next_stat_mode = 2 else: next_stat_mode = 1
HBlankNextMode(ly) == IF ly < LAST_VISIBLE_LY THEN 2 ELSE 1

VBlankNextMode_Always1(ly) == 1

\* next_stat_mode = 1; if self.LY == 153: next_stat_mode = 2
VBlankNextMode(ly) == IF ly = LAST_LY THEN 2 ELSE 1

\* no VBlank interrupt on any line
VBlankInterrupt_Never(ly) == 0

VBlankInterrupt_Late(ly) == IF ly = VBLANK_LY + 1 THEN INTR_VBLANK ELSE 0

\* if self.LY == 144: interrupt_flag |= INTR_VBLANK
VBlankInterrupt(ly) == IF ly = VBLANK_LY THEN INTR_VBLANK ELSE 0

set_lcdc_WithCompare(value) ==
    /\ LCDC' = value
    /\ IF lcd_enable(value) = 0
       THEN /\ clock' = 0
            /\ clock_target' = FRAME_CYCLES
            /\ STAT' = update_LYC(set_mode(STAT, mode, 0).value, LYC, 0).value
            /\ mode' = 0
            /\ next_stat_mode' = 2
            /\ LY' = 0
       ELSE UNCHANGED <<clock, clock_target, STAT, mode, next_stat_mode, LY>>
    /\ UNCHANGED <<LYC, frame_done, double_speed, interrupt_flag,
                   processing_ret, rendvars>>

set_lcdc(value) ==
    /\ LCDC' = value
    /\ IF lcd_enable(value) = 0
       THEN /\ clock' = 0
            /\ clock_target' = FRAME_CYCLES
            /\ STAT' = set_mode(STAT, mode, 0).value
            /\ mode' = set_mode(STAT, mode, 0).mode
            /\ next_stat_mode' = 2
            /\ LY' = 0
       ELSE UNCHANGED <<clock, clock_target, STAT, mode, next_stat_mode, LY>>
    /\ UNCHANGED <<LYC, frame_done, double_speed, interrupt_flag,
                   processing_ret, rendvars>>

set_stat(value) ==
    /\ STAT' = STATRegister_set(STAT, value)
    /\ UNCHANGED <<LCDC, mode, next_stat_mode, LY, LYC, clock, clock_target,
                   frame_done, double_speed, interrupt_flag, processing_ret,
                   rendvars>>

processing_frame_NoReset ==
    /\ processing_ret' = ~frame_done
    /\ UNCHANGED <<LCDC, STAT, mode, next_stat_mode, LY, LYC, clock,
                   clock_target, frame_done, double_speed, interrupt_flag,
                   rendvars>>

\* b = (not self.frame_done); if not b: self.frame_done = False; return b
processing_frame ==
    /\ processing_ret' = ~frame_done
    /\ frame_done' = FALSE
    /\ UNCHANGED <<LCDC, STAT, mode, next_stat_mode, LY, LYC, clock,
                   clock_target, double_speed, interrupt_flag, rendvars>>

\* the branch of tick taken when the LCD is on and the clock has reached the target
tick_transition(clk) ==
    LET sm == set_mode(STAT, mode, next_stat_mode)
    IN  /\ mode' = sm.mode
        /\ CASE sm.mode = 2 ->
                  LET ly  == IF LY = LAST_LY THEN 0 ELSE LY + 1
                      c   == IF LY = LAST_LY THEN clk % FRAME_CYCLES ELSE clk
                      t   == IF LY = LAST_LY THEN clock_target % FRAME_CYCLES
                                             ELSE clock_target
                      lyc == update_LYC(sm.value, LYC, ly)
                  IN  /\ LY' = ly
                      /\ clock' = c
                      /\ clock_target' = t + MODE2_CYCLES * Multiplier
                      /\ next_stat_mode' = 3
                      /\ STAT' = lyc.value
                      /\ interrupt_flag' = BitOr(sm.ret, lyc.ret)
                      /\ UNCHANGED <<frame_done, rendvars>>
             [] sm.mode = 3 ->
                  /\ clock' = clk
                  /\ clock_target' = clock_target + MODE3_CYCLES * Multiplier
                  /\ next_stat_mode' = 0
                  /\ STAT' = sm.value
                  /\ interrupt_flag' = sm.ret
                  /\ UNCHANGED <<LY, frame_done, rendvars>>
             [] sm.mode = 0 ->
                  /\ clock' = clk
                  /\ clock_target' = clock_target + MODE0_CYCLES * Multiplier
                  /\ hblank_render
                  /\ next_stat_mode' = HBlankNextMode(LY)
                  /\ STAT' = sm.value
                  /\ interrupt_flag' = sm.ret
                  /\ UNCHANGED <<LY, frame_done>>
             [] sm.mode = 1 ->
                  LET ly  == LY + 1
                      lyc == update_LYC(sm.value, LYC, ly)
                      vb  == VBlankInterrupt(ly)
                  IN  /\ clock' = clk
                      /\ clock_target' = clock_target + MODE1_CYCLES * Multiplier
                      /\ next_stat_mode' = VBlankNextMode(ly)
                      /\ LY' = ly
                      /\ STAT' = lyc.value
                      /\ interrupt_flag' = BitOr(BitOr(sm.ret, lyc.ret), vb)
                      /\ frame_done' = (frame_done \/ vb # 0)
                      /\ UNCHANGED rendvars

tick(cycles) ==
    LET clk == clock + cycles
    IN  /\ IF lcd_enable(LCDC) # 0
           THEN IF clk >= clock_target
                THEN tick_transition(clk)
                ELSE /\ clock' = clk
                     /\ interrupt_flag' = 0
                     /\ UNCHANGED <<STAT, mode, next_stat_mode, LY,
                                    clock_target, frame_done, rendvars>>
           ELSE /\ IF clk >= FRAME_CYCLES
                   THEN /\ frame_done' = TRUE
                        /\ clock' = clk % FRAME_CYCLES
                        /\ blank_screen
                   ELSE /\ clock' = clk
                        /\ UNCHANGED <<frame_done, rendvars>>
                /\ interrupt_flag' = 0
                /\ UNCHANGED <<STAT, mode, next_stat_mode, LY, clock_target>>
        /\ UNCHANGED <<LCDC, LYC, double_speed, processing_ret>>

\* the value returned by cycles_to_mode0()
cycles_to_mode0 ==
    LET mode2 == MODE2_CYCLES * Multiplier
        mode3 == MODE3_CYCLES * Multiplier
        mode1 == MODE1_CYCLES * Multiplier
        remainder == clock_target - clock
    IN  CASE mode = 2 -> remainder + mode3
          [] mode = 3 -> remainder
          [] mode = 0 -> 0
          [] mode = 1 -> remainder + mode1 * (LAST_LY - LY) + mode2 + mode3

\* LCD.__init__ with STATRegister.__init__ and LCDCRegister(0)
LCDInit ==
    /\ LCDC = 0
    /\ STAT = 128
    /\ mode = 0
    /\ next_stat_mode = 2
    /\ LY = 0
    /\ LYC = 0
    /\ clock = 0
    /\ clock_target = 0
    /\ frame_done = FALSE
    /\ double_speed = FALSE
    /\ interrupt_flag = 0

\* the rest of LCD.__init__ for the DMG: zeroed memory, the palette and
\* scroll registers, the renderer; no call has returned and no state file
\* has been written
MemInit ==
    /\ processing_ret = FALSE
    /\ cgb = FALSE
    /\ VRAM0 = [a \in 0..(16 * MaxTiles - 1) |-> 0]
    /\ OAM = [a \in 0..(4 * MaxSprites - 1) |-> 0]
    /\ BGP = 252
    /\ OBP0 = 255
    /\ OBP1 = 255
    /\ SCY = 0 /\ SCX = 0 /\ WY = 0 /\ WX = 0
    /\ RendererInit
    /\ f = <<>>
    /\ sched = 0 /\ calls = 0 /\ saved = <<>> /\ remaining = <<>>
       /\ PaletteInit /\ raised = FALSE

\* a call of tick turned frame_done from false to true
FrameRise == ~frame_done /\ frame_done'

----------------------------------------------------------------------------
(* Inputs *)

\* a third of a line: the three modes of a visible line take 80, 170 and 206
LINE_THIRD == MODE1_CYCLES \div 3

\* tick arguments while the LCD is on
TickCycles == {LINE_THIRD, MODE1_CYCLES}

\* tick arguments while the LCD is off, where tick only wraps the clock
TickCyclesOff == {FRAME_CYCLES \div 2}

\* LCDC writes: off, off with other bits set, on
LcdcWrites == {0, 17, 128}

StatWrites == {0, 255}

----------------------------------------------------------------------------
(* The controller from construction, under any calls *)

Init ==
    /\ LCDInit /\ MemInit
    /\ elapsed = 0 /\ frames = 0 /\ dwell = 0 /\ longticks = 0 /\ offticks = 0

Tick ==
    \E c \in IF lcd_enable(LCDC) # 0 THEN TickCycles ELSE TickCyclesOff :
        /\ c > LINE_THIRD /\ lcd_enable(LCDC) # 0 => longticks < MaxLongTicks
        /\ tick(c)
        /\ longticks' = IF c > LINE_THIRD /\ lcd_enable(LCDC) # 0
                        THEN longticks + 1 ELSE longticks
        /\ UNCHANGED <<elapsed, frames, dwell, offticks, restvars>>

SetLcdc == \E v \in LcdcWrites : set_lcdc(v) /\ UNCHANGED <<obsvars, restvars>>

SetStat == \E v \in StatWrites : set_stat(v) /\ UNCHANGED <<obsvars, restvars>>

Next == Tick \/ SetLcdc \/ SetStat

Spec == Init /\ [][Next]_vars

----------------------------------------------------------------------------
(* The controller kept in step with the clock (no tick longer than a third *)
(* of a line), with each STAT enable bit written on its own and the frame  *)
(* flag consumed by processing_frame                                       *)

StatWritesIntr == {0, 8, 16, 32, 64}

TickIntr ==
    \E c \in IF lcd_enable(LCDC) # 0 THEN {LINE_THIRD} ELSE TickCyclesOff :
        tick(c) /\ UNCHANGED <<obsvars, restvars>>

SetStatIntr == \E v \in StatWritesIntr : set_stat(v) /\ UNCHANGED <<obsvars, restvars>>

ProcessingFrame == frame_done /\ processing_frame /\ UNCHANGED <<obsvars, restvars>>

NextIntr == TickIntr \/ SetLcdc \/ SetStatIntr \/ ProcessingFrame

SpecIntr == Init /\ [][NextIntr]_vars

----------------------------------------------------------------------------
(* The scenario "set LYC, set STAT = 0x40, tick a frame": LYC is any value *)
(* of 0..MaxLYC and stays fixed, the LYC interrupt enable is written, then *)
(* the LCD is switched on and ticked in step                               *)

InitLyc ==
    /\ LCDInit!1 /\ LCDInit!2 /\ LCDInit!3 /\ LCDInit!4 /\ LCDInit!5
    /\ LYC \in 0..MaxLYC
    /\ LCDInit!7 /\ LCDInit!8 /\ LCDInit!9 /\ LCDInit!10 /\ LCDInit!11
    /\ MemInit
    /\ elapsed = 0 /\ frames = 0 /\ dwell = 0 /\ longticks = 0 /\ offticks = 0

SetStatLyc == lcd_enable(LCDC) = 0 /\ set_stat(64) /\ UNCHANGED <<obsvars, restvars>>

SetLcdcOn == BitAnd(STAT, 64) # 0 /\ set_lcdc(128) /\ UNCHANGED <<obsvars, restvars>>

TickLyc == lcd_enable(LCDC) # 0 /\ tick(LINE_THIRD) /\ UNCHANGED <<obsvars, restvars>>

NextLyc == TickLyc \/ SetLcdcOn \/ SetStatLyc

SpecLyc == InitLyc /\ [][NextLyc]_vars

----------------------------------------------------------------------------
(* One frame observed from its first cycle: the LCD is on at LY = 0 in     *)
(* mode 2 with the clock at the start of the line, as tick leaves it when  *)
(* it wraps LY on cycle 70224 exactly; the tick arguments sum to at most   *)
(* one frame                                                               *)

FrameLycValues == {0, 40, VBLANK_LY}

FrameStatEnables == {0, 120}

FrameTickCycles == {LINE_THIRD, MODE1_CYCLES, FRAME_CYCLES}

InitFrame ==
    /\ LCDC = 128
    /\ LYC \in FrameLycValues
    /\ \E e \in FrameStatEnables :
          STAT = update_LYC(set_mode(STATRegister_set(128, e), 0, 2).value, LYC, 0).value
    /\ mode = 2
    /\ next_stat_mode = 3
    /\ LY = 0
    /\ clock = 0
    /\ clock_target = MODE2_CYCLES
    /\ frame_done = FALSE
    /\ double_speed = FALSE
    /\ interrupt_flag = 0
    /\ MemInit!1 /\ MemInit!2 /\ MemInit!3 /\ MemInit!4 /\ MemInit!5
    /\ MemInit!6 /\ MemInit!7 /\ MemInit!8
    /\ RendererInit!1 /\ RendererInit!2 /\ RendererInit!3 /\ RendererInit!4
    /\ RendererInit!5
    /\ screenbuffer = [y \in ScreenRows |-> [x \in ScreenCols |-> color_palette[0]]]
    /\ scanlineparameters = [y \in ScreenRows |-> <<0, 0, -7, 0, 0>>]
    /\ ly_window = -1
    /\ MemInit!10 /\ MemInit!11
    /\ elapsed = 0 /\ frames = 0 /\ dwell = 0 /\ longticks = 0 /\ offticks = 0

TickFrame ==
    \E c \in FrameTickCycles :
        /\ elapsed + c <= FRAME_CYCLES
        /\ c > LINE_THIRD => longticks < MaxLongTicks
        /\ tick(c)
        /\ elapsed' = elapsed + c
        /\ frames' = IF FrameRise THEN frames + 1 ELSE frames
        /\ longticks' = IF c > LINE_THIRD THEN longticks + 1 ELSE longticks
        /\ UNCHANGED <<dwell, offticks, restvars>>

ProcessingFrameFrame == frame_done /\ processing_frame /\ UNCHANGED <<obsvars, restvars>>

NextFrame == TickFrame \/ ProcessingFrameFrame

SpecFrame == InitFrame /\ [][NextFrame]_vars

\* The cycles of the observed frame at which the mode cycle budgets enter
\* mode m: line k of 0..143 starts at 456k, enters mode 3 at 456k + 80 and
\* mode 0 at 456k + 250; VBlank starts at 456 * 144; cycle 70224 starts
\* line 0 of the next frame.
BudgetEntryCycles(m) ==
    CASE m = 0 -> {MODE1_CYCLES * k + MODE2_CYCLES + MODE3_CYCLES :
                      k \in 0..LAST_VISIBLE_LY}
      [] m = 1 -> {MODE1_CYCLES * VBLANK_LY}
      [] m = 2 -> {MODE1_CYCLES * k : k \in 1..LAST_VISIBLE_LY} \cup {FRAME_CYCLES}
      [] m = 3 -> {MODE1_CYCLES * k + MODE2_CYCLES : k \in 0..LAST_VISIBLE_LY}

\* the lines that the budgets make LY advance to within (a, b]: line k at
\* cycle 456k, line 0 at cycle 70224
BudgetLines(a, b) ==
    {k % (LAST_LY + 1) : k \in {j \in 1..(LAST_LY + 1) :
                                  a < MODE1_CYCLES * j /\ MODE1_CYCLES * j <= b}}

\* the OR of the interrupts whose trigger cycle lies in (a, b]
BudgetFlags(a, b, stat, lyc) ==
    LET lcdc == \/ \E m \in 0..2 :
                     /\ Bit(stat, m + 3) = 1
                     /\ \E t \in BudgetEntryCycles(m) : a < t /\ t <= b
                \/ Bit(stat, 6) = 1 /\ lyc \in BudgetLines(a, b)
        vbl  == VBLANK_LY \in BudgetLines(a, b)
    IN  (IF lcdc THEN INTR_LCDC ELSE 0) + (IF vbl THEN INTR_VBLANK ELSE 0)

----------------------------------------------------------------------------
(* Mode durations measured under short ticks: every tick argument is at    *)
(* most the shortest mode (80 cycles), from construction, with the LCD     *)
(* switched on and off at any time                                         *)

LINE_SIXTH == MODE1_CYCLES \div 6

DwellTickCycles == {LINE_SIXTH, LINE_SIXTH \div 2}

\* the cycles the budgets give one stay in mode m
ModeBudget(m) ==
    CASE m = 2 -> MODE2_CYCLES
      [] m = 3 -> MODE3_CYCLES
      [] m = 0 -> MODE0_CYCLES
      [] m = 1 -> (LAST_LY - VBLANK_LY + 1) * MODE1_CYCLES

\* dwell is -1 while the current mode was not entered by tick
InitDwell ==
    /\ LCDInit /\ MemInit
    /\ elapsed = 0 /\ frames = 0 /\ dwell = -1 /\ longticks = 0 /\ offticks = 0

TickDwell ==
    \E c \in DwellTickCycles :
        /\ lcd_enable(LCDC) = 0 => offticks < MaxOffTicks
        /\ tick(c)
        /\ offticks' = IF lcd_enable(LCDC) = 0 THEN offticks + 1 ELSE offticks
        /\ dwell' = IF lcd_enable(LCDC) = 0 THEN dwell
                     ELSE IF mode' # mode THEN 0
                     ELSE IF dwell < 0 THEN dwell
                     ELSE dwell + c
        /\ UNCHANGED <<elapsed, frames, longticks, restvars>>

SetLcdcDwell ==
    \E v \in {0, 128} :
        /\ set_lcdc(v)
        /\ dwell' = IF lcd_enable(v) = 0 THEN -1 ELSE dwell
        /\ UNCHANGED <<elapsed, frames, longticks, offticks, restvars>>

NextDwell == TickDwell \/ SetLcdcDwell

SpecDwell == InitDwell /\ [][NextDwell]_vars

----------------------------------------------------------------------------
(* The LCD switched off after it has rendered: ticks in step while it is  *)
(* on, and while it is off ticks that sum to at most one frame since the   *)
(* latest LCDC write (or construction), where the observers restart; the   *)
(* frame flag is consumed before the LCD is switched off                   *)

OffTickCycles == {FRAME_CYCLES, FRAME_CYCLES \div 2, FRAME_CYCLES \div 3}

\* LCDC writes: off, on with the background disabled, on with the
\* background enabled on unsigned tile data (0x91)
LcdcWritesOff == {0, 128, 145}

TickOff ==
    IF lcd_enable(LCDC) # 0
    THEN tick(LINE_THIRD) /\ UNCHANGED <<obsvars, restvars>>
    ELSE \E c \in OffTickCycles :
            /\ elapsed + c <= FRAME_CYCLES
            /\ tick(c)
            /\ elapsed' = elapsed + c
            /\ frames' = IF FrameRise THEN frames + 1 ELSE frames
            /\ UNCHANGED <<dwell, longticks, offticks, restvars>>

SetLcdcOff ==
    \E v \in LcdcWritesOff :
        /\ lcd_enable(v) = 0 => ~frame_done
        /\ set_lcdc(v)
        /\ elapsed' = 0
        /\ frames' = 0
        /\ UNCHANGED <<dwell, longticks, offticks, restvars>>

NextOff == TickOff \/ SetLcdcOff \/ ProcessingFrame

SpecOff == Init /\ [][NextOff]_vars

----------------------------------------------------------------------------
(* Frames measured at either speed: double_speed is set before the LCD is  *)
(* switched on and stays; the LCD is switched on once and ticked from      *)
(* then on.  frames counts the entries to LY = 144 (up to 2), sched the    *)
(* mode budgets added to clock_target since the latest entry, and elapsed  *)
(* the tick arguments since the latest entry when the tick that made it    *)
(* brought clock to clock_target exactly (and is -1 when it did not)       *)

SpeedTickCycles == {LINE_THIRD, MODE1_CYCLES}

\* tick moved LY to 144
VBlankEntry == LY # VBLANK_LY /\ LY' = VBLANK_LY

\* the mode budget that tick added to clock_target (which it reduces modulo
\* FRAME_CYCLES when LY wraps)
BudgetAdded == (clock_target' - clock_target) % FRAME_CYCLES

InitSpeed ==
    /\ LCDInit!1 /\ LCDInit!2 /\ LCDInit!3 /\ LCDInit!4 /\ LCDInit!5
    /\ LCDInit!6 /\ LCDInit!7 /\ LCDInit!8 /\ LCDInit!9
    /\ double_speed \in BOOLEAN
    /\ LCDInit!11
    /\ MemInit
    /\ elapsed = 0 /\ frames = 0 /\ dwell = 0 /\ longticks = 0 /\ offticks = 0

TickSpeed ==
    \E c \in SpeedTickCycles :
        /\ lcd_enable(LCDC) # 0
        /\ c > LINE_THIRD => longticks < MaxLongTicks
        /\ tick(c)
        /\ sched' = IF VBlankEntry THEN BudgetAdded ELSE sched + BudgetAdded
        /\ elapsed' = IF VBlankEntry
                       THEN (IF clock + c = clock_target THEN 0 ELSE -1)
                       ELSE (IF elapsed < 0 THEN elapsed ELSE elapsed + c)
        /\ frames' = IF VBlankEntry /\ frames < 2 THEN frames + 1 ELSE frames
        /\ longticks' = IF c > LINE_THIRD THEN longticks + 1 ELSE longticks
        /\ UNCHANGED <<dwell, offticks, memvars, cgbvars, f, calls, saved, remaining>>

SetLcdcSpeed ==
    /\ lcd_enable(LCDC) = 0
    /\ set_lcdc(128)
    /\ UNCHANGED <<obsvars, restvars>>

NextSpeed == TickSpeed \/ SetLcdcSpeed

SpecSpeed == InitSpeed /\ [][NextSpeed]_vars

----------------------------------------------------------------------------
(* The frame flag polled at any time: processing_frame is called between   *)
(* ticks made in step, with the LCD switched on and off.  Here frames is   *)
(* the number of times tick has turned frame_done from false to true, less *)
(* the number of processing_frame calls that returned false                *)

TickPoll ==
    \E c \in IF lcd_enable(LCDC) # 0 THEN {LINE_THIRD} ELSE TickCyclesOff :
        /\ tick(c)
        /\ frames' = IF FrameRise THEN frames + 1 ELSE frames
        /\ UNCHANGED <<elapsed, dwell, longticks, offticks, restvars>>

PollFrame ==
    /\ processing_frame
    /\ frames' = IF processing_ret' THEN frames ELSE frames - 1
    /\ UNCHANGED <<elapsed, dwell, longticks, offticks, restvars>>

SetLcdcPoll == \E v \in {0, 128} : set_lcdc(v) /\ UNCHANGED <<obsvars, restvars>>

NextPoll == TickPoll \/ PollFrame \/ SetLcdcPoll

SpecPoll == Init /\ [][NextPoll]_vars

----------------------------------------------------------------------------
(* The wait for HBlank: at either speed the LCD is switched on and ticked, *)
(* then cycles_to_mode0() is asked on one of the lines AskLines and the    *)
(* LCD is ticked one cycle at a time until the mode is 0                   *)

WaitTickCycles == {LINE_THIRD, MODE1_CYCLES}

AskLines == {0, 1, LAST_VISIBLE_LY, VBLANK_LY, LAST_LY}

TickWait ==
    \E c \in WaitTickCycles :
        /\ remaining = <<>>
        /\ lcd_enable(LCDC) # 0
        /\ c > LINE_THIRD => longticks < MaxLongTicks
        /\ tick(c)
        /\ longticks' = IF c > LINE_THIRD THEN longticks + 1 ELSE longticks
        /\ UNCHANGED <<elapsed, frames, dwell, offticks, restvars>>

SetLcdcWait ==
    /\ lcd_enable(LCDC) = 0
    /\ set_lcdc(128)
    /\ UNCHANGED <<obsvars, restvars>>

AskCyclesToMode0 ==
    /\ remaining = <<>>
    /\ lcd_enable(LCDC) # 0
    /\ LY \in AskLines
    /\ remaining' = <<cycles_to_mode0>>
    /\ UNCHANGED <<LCDC, STAT, mode, next_stat_mode, LY, LYC, clock, clock_target,
                   frame_done, double_speed, interrupt_flag, processing_ret,
                   memvars, rendvars, cgbvars, f, obsvars, sched, calls, saved>>

TickOneCycle ==
    /\ remaining # <<>>
    /\ mode # 0
    /\ tick(1)
    /\ remaining' = <<remaining[1] - 1>>
    /\ UNCHANGED <<obsvars, memvars, cgbvars, f, sched, calls, saved>>

NextWait == TickWait \/ SetLcdcWait \/ AskCyclesToMode0 \/ TickOneCycle

SpecWait == InitSpeed /\ [][NextWait]_vars

----------------------------------------------------------------------------
(* scanline_sprites as a function of OAM, LCDC, the sprite caches and the  *)
(* line under the sprites: the inputs are drawn at the start and one call  *)
(* composes the sprites on line LY                                         *)

\* tile 0 has colour code 1 in every pixel, every other tile colour code 0
SpriteTestVRAM ==
    [a \in 0..(16 * MaxTiles - 1) |-> IF a < 16 /\ a % 2 = 0 THEN 255 ELSE 0]

\* object palette memory in which the word of every (palette, colour) differs
SpriteTestPaletteMem == [i \in 0..(4 * CGB_NUM_PALETTES - 1) |-> i]

\* the 4 bytes of every OAM entry, laid out as lcd.OAM
OAMOf(entries) ==
    [a \in 0..(4 * MaxSprites - 1) |-> entries[(a \div 4) + 1][(a % 4) + 1]]

\* every entry on line ly0 at x' = its index, except up to two entries that
\* start 8 lines higher and so reach ly0 only as 8x16 sprites
CapOAMs(ly0) ==
    {OAMOf([i \in 1..MaxSprites |->
               <<IF (i - 1) \in D THEN ly0 + 8 ELSE ly0 + 16, 8 + (i - 1), 0, 0>>]) :
        D \in {D \in SUBSET OAMEntries : Cardinality(D) <= 2}}

PairAttributes == {0, 32, 64, 96, 128, 160, 192, 224}

\* entries 0 and 1 on line ly0, entry 0 at x' = 3 and entry 1 at x' = 2, 3 or 4,
\* with every combination of tile and of attribute bits 7..5; entry 1 takes
\* OBP1 (DMG) and palette 1 (CGB), so that the two differ in colour
PairOAMs(ly0) ==
    {OAMOf([i \in 1..MaxSprites |->
               IF i = 1 THEN <<ly0 + 16, 8 + 3, t1, a1>>
               ELSE IF i = 2 THEN <<ly0 + 16, 8 + x2, t2, a2 + 16 + 1>>
               ELSE <<0, 0, 0, 0>>]) :
        x2 \in {2, 3, 4}, t1 \in {0, 1}, t2 \in {0, 1},
        a1 \in PairAttributes, a2 \in PairAttributes}

\* the pixels that scanline leaves under the sprites: colour code 0 or 1 of
\* the background, on the CGB with or without the tile's priority attribute
BgPixels ==
    IF cgb
    THEN UNION {{q, [q EXCEPT !.a = q.a + BG_PRIORITY_FLAG]} :
                   q \in {cgb_decoded_pixel(PALETTE_MEM_INIT, 0, code) : code \in {0, 1}}}
    ELSE {DecodedPixel(color_palette, BGP, code) : code \in {0, 1}}

\* sprites enabled, with either sprite height and either value of bit 0
LcdcSprites == {128 + 2, 128 + 2 + 1, 128 + 2 + 4, 128 + 2 + 4 + 1}

InitSprites ==
    /\ LCDC \in LcdcSprites
    /\ LCDInit!2 /\ LCDInit!3 /\ LCDInit!4 /\ LCDInit!6
    /\ LCDInit!7 /\ LCDInit!8 /\ LCDInit!9 /\ LCDInit!10 /\ LCDInit!11
    /\ processing_ret = FALSE
    /\ cgb \in BOOLEAN
    /\ VRAM0 = SpriteTestVRAM
    /\ BGP = 252 /\ OBP0 = 228 /\ OBP1 = 27
    /\ SCY = 0 /\ SCX = 0 /\ WY = 0 /\ WX = 0
    /\ clearcache = FALSE
    /\ tiles_changed0 = {}
    /\ tilecache0 = IF cgb THEN cgb_decoded_cache(PALETTE_MEM_INIT)
                           ELSE decoded_cache(color_palette, BGP)
    /\ spritecache0 = IF cgb THEN cgb_decoded_cache(SpriteTestPaletteMem)
                             ELSE decoded_cache(obj0_palette, OBP0)
    /\ spritecache1 = IF cgb THEN cgb_decoded_cache1(SpriteTestPaletteMem)
                             ELSE decoded_cache(obj1_palette, OBP1)
    /\ LY \in ScreenRows
    /\ OAM \in CapOAMs(LY) \cup (IF LY = 0 THEN PairOAMs(LY) ELSE {})
    /\ \E bg \in BgPixels :
          screenbuffer = [y \in ScreenRows |-> [x \in ScreenCols |->
                             IF y = LY THEN bg ELSE BUFFER_INIT]]
    /\ scanlineparameters = [y \in ScreenRows |-> <<0, 0, 0, 0, 0>>]
    /\ ly_window = 0
    /\ f = <<>>
    /\ sched = 0 /\ calls = 0 /\ saved = <<>> /\ remaining = <<>>
       /\ PaletteInit /\ raised = FALSE
    /\ elapsed = 0 /\ frames = 0 /\ dwell = 0 /\ longticks = 0 /\ offticks = 0

\* scanline_sprites(lcd, lcd.LY, buffer, False), as tick calls it
RenderSprites ==
    /\ calls = 0
    /\ scanline_sprites_call(LY)
    /\ calls' = 1
    /\ UNCHANGED <<LCDC, STAT, mode, next_stat_mode, LY, LYC, clock, clock_target,
                   frame_done, double_speed, interrupt_flag, processing_ret,
                   memvars, f, obsvars, sched, saved, cgbvars, remaining>>

NextSprites == RenderSprites

SpecSprites == InitSprites /\ [][NextSprites]_vars

----------------------------------------------------------------------------
(* The caches under writes: the LCD is switched on and ticked in step      *)
(* through the first lines while tile data and the DMG palettes are        *)
(* written between the ticks.  Here elapsed is the number of cycles ticked *)

\* the bytes written: both bit planes of row 0 of tile 0, and a byte of tile 1
VRAMWriteAddrs == {0, 1, 16}

VRAMWriteValues == {0, 255}

PaletteWrites == {252, 228}

TickCache ==
    /\ lcd_enable(LCDC) # 0
    /\ elapsed < MaxLines * MODE1_CYCLES
    /\ tick(LINE_THIRD)
    /\ elapsed' = elapsed + LINE_THIRD
    /\ UNCHANGED <<frames, dwell, longticks, offticks, restvars>>

SetLcdcCache ==
    /\ lcd_enable(LCDC) = 0
    /\ set_lcdc(128 + 16 + 1)
    /\ UNCHANGED <<obsvars, restvars>>

\* a byte is stored in the tile data of VRAM0 and its tile is marked dirty
WriteVRAM ==
    /\ calls < MaxWrites
    /\ \E a \in VRAMWriteAddrs : \E v \in VRAMWriteValues :
          /\ VRAM0' = [VRAM0 EXCEPT ![a] = v]
          /\ tiles_changed0' = tiles_changed0 \cup {TILEDATA_BASE + 16 * (a \div 16)}
    /\ calls' = calls + 1
    /\ UNCHANGED <<LCDC, STAT, mode, next_stat_mode, LY, LYC, clock, clock_target,
                   frame_done, double_speed, interrupt_flag, processing_ret,
                   cgb, OAM, BGP, OBP0, OBP1, SCY, SCX, WY, WX,
                   clearcache, tilecache0, spritecache0, spritecache1, screenbuffer,
                   scanlineparameters, ly_window, f, obsvars, sched, saved, cgbvars, remaining>>

\* BGP or OBP0 is written; a write that changes the value sets clearcache
WritePalette ==
    /\ calls < MaxWrites
    /\ \E v \in PaletteWrites :
          \/ /\ BGP' = PaletteRegister_set(BGP, v)
             /\ clearcache' = (clearcache \/ PaletteRegister_set_changed(BGP, v))
             /\ UNCHANGED OBP0
          \/ /\ OBP0' = PaletteRegister_set(OBP0, v)
             /\ clearcache' = (clearcache \/ PaletteRegister_set_changed(OBP0, v))
             /\ UNCHANGED BGP
    /\ calls' = calls + 1
    /\ UNCHANGED <<LCDC, STAT, mode, next_stat_mode, LY, LYC, clock, clock_target,
                   frame_done, double_speed, interrupt_flag, processing_ret,
                   cgb, VRAM0, OAM, OBP1, SCY, SCX, WY, WX,
                   tiles_changed0, tilecache0, spritecache0, spritecache1, screenbuffer,
                   scanlineparameters, ly_window, f, obsvars, sched, saved, cgbvars, remaining>>

NextCache == TickCache \/ SetLcdcCache \/ WriteVRAM \/ WritePalette

SpecCache == Init /\ [][NextCache]_vars

----------------------------------------------------------------------------
(* The state file: from the first cycle of a frame the DMG controller is   *)
(* switched on and off, written to and ticked in step through the first    *)
(* lines; its state is saved once and loaded once at a later moment.  Here *)
(* f is the sequence of values                                             *)
(* written, in the order of LCD.save_state followed by                     *)
(* Renderer.save_state, and calls is the number of loads                   *)

\* f.write of a flag
BoolByte(b) == IF b THEN 1 ELSE 0

\* the position of a tracked row among the tracked rows
RowIndex(y) == Cardinality({z \in ScreenRows : z < y})

\* the values LCD.save_state writes
LCD_save_state ==
    [k \in 1..(16 * MaxTiles) |-> VRAM0[k - 1]]
    \o [k \in 1..(4 * MaxSprites) |-> OAM[k - 1]]
    \o <<LCDC, BGP, OBP0, OBP1, STAT, LY, LYC, SCY, SCX, WY, WX,
         BoolByte(cgb), BoolByte(double_speed)>>

\* the values Renderer.save_state writes: the log of every row, with
\* (WX - 7) stored as (WX - 7 + 7) & 0xFF, then the pixels
Renderer_save_state ==
    [k \in 1..(5 * Cardinality(ScreenRows)) |->
        LET y == CHOOSE z \in ScreenRows : RowIndex(z) = (k - 1) \div 5
            c == ((k - 1) % 5) + 1
        IN  IF c = 3 THEN (scanlineparameters[y][3] + 7) % 256
            ELSE scanlineparameters[y][c]]
    \o [k \in 1..(Cardinality(ScreenRows) * (MaxCol + 1)) |->
           LET y == CHOOSE z \in ScreenRows : RowIndex(z) = (k - 1) \div (MaxCol + 1)
           IN  screenbuffer[y][(k - 1) % (MaxCol + 1)]]

\* where the registers and the renderer's part begin in f
RegBase == 16 * MaxTiles + 4 * MaxSprites

RendBase == RegBase + 13

PixBase == RendBase + 5 * Cardinality(ScreenRows)

StatWritesState == {0, 120}

LcdcWritesState == {0, 128}

TickState ==
    /\ lcd_enable(LCDC) # 0
    /\ elapsed < MaxLines * MODE1_CYCLES
    /\ tick(LINE_THIRD)
    /\ elapsed' = elapsed + LINE_THIRD
    /\ UNCHANGED <<frames, dwell, longticks, offticks, restvars>>

SetLcdcState == \E v \in LcdcWritesState : set_lcdc(v) /\ UNCHANGED <<obsvars, restvars>>

SetStatState == \E v \in StatWritesState : set_stat(v) /\ UNCHANGED <<obsvars, restvars>>

\* LCD.save_state(f) and Renderer.save_state(f) on an empty file
SaveState ==
    /\ f = <<>>
    /\ f' = LCD_save_state \o Renderer_save_state
    /\ saved' = [LCDC |-> LCDC, BGP |-> BGP, OBP0 |-> OBP0, OBP1 |-> OBP1,
                 STAT |-> STAT, LY |-> LY, LYC |-> LYC, SCY |-> SCY, SCX |-> SCX,
                 WY |-> WY, WX |-> WX, double_speed |-> double_speed,
                 scanlineparameters |-> scanlineparameters]
    /\ UNCHANGED <<LCDC, STAT, mode, next_stat_mode, LY, LYC, clock, clock_target,
                   frame_done, double_speed, interrupt_flag, processing_ret,
                   memvars, rendvars, cgbvars, obsvars, sched, calls, remaining>>

\* LCD.load_state(f, state_version) and Renderer.load_state(f, state_version)
\* with the current state version: set_lcdc, the palette registers, set_stat,
\* LY, LYC, the scroll registers, the CGB flag check and double_speed; then
\* the log with (v - 7) & 0xFF, the pixels, and clearcache
load_state(file) ==
    /\ LET off == lcd_enable(file[RegBase + 1]) = 0
           sm  == set_mode(STAT, mode, 0)
       IN  /\ LCDC' = file[RegBase + 1]
           /\ clock' = IF off THEN 0 ELSE clock
           /\ clock_target' = IF off THEN FRAME_CYCLES ELSE clock_target
           /\ mode' = IF off THEN sm.mode ELSE mode
           /\ next_stat_mode' = IF off THEN 2 ELSE next_stat_mode
           /\ STAT' = STATRegister_set(IF off THEN sm.value ELSE STAT, file[RegBase + 5])
    /\ VRAM0' = [a \in DOMAIN VRAM0 |-> file[a + 1]]
    /\ OAM' = [a \in DOMAIN OAM |-> file[16 * MaxTiles + a + 1]]
    /\ BGP' = PaletteRegister_set(BGP, file[RegBase + 2])
    /\ OBP0' = PaletteRegister_set(OBP0, file[RegBase + 3])
    /\ OBP1' = PaletteRegister_set(OBP1, file[RegBase + 4])
    /\ LY' = file[RegBase + 6]
    /\ LYC' = file[RegBase + 7]
    /\ SCY' = file[RegBase + 8]
    /\ SCX' = file[RegBase + 9]
    /\ WY' = file[RegBase + 10]
    /\ WX' = file[RegBase + 11]
    /\ double_speed' = IF BoolByte(cgb) # file[RegBase + 12] THEN double_speed
                       ELSE file[RegBase + 13] # 0
    /\ scanlineparameters' =
          [y \in ScreenRows |->
              LET b == RendBase + 5 * RowIndex(y)
              IN  <<file[b + 1], file[b + 2], (file[b + 3] - 7) % 256, file[b + 4], file[b + 5]>>]
    /\ screenbuffer' =
          [y \in ScreenRows |-> [x \in ScreenCols |->
              file[PixBase + RowIndex(y) * (MaxCol + 1) + x + 1]]]
    /\ clearcache' = TRUE
    /\ UNCHANGED <<frame_done, interrupt_flag, processing_ret, cgb,
                   tiles_changed0, tilecache0, spritecache0, spritecache1, ly_window>>

\* the state file is loaded, once
LoadState ==
    /\ f # <<>>
    /\ calls = 0
    /\ calls' = 1
    /\ load_state(f)
    /\ UNCHANGED <<f, obsvars, sched, saved, cgbvars, remaining>>

NextState == TickState \/ SetLcdcState \/ SetStatState \/ SaveState \/ LoadState

SpecState == InitFrame /\ [][NextState]_vars

----------------------------------------------------------------------------
(* A state file with LY beyond the last line: from the first cycle of a    *)
(* frame the DMG controller is ticked in step, then on one of a few lines  *)
(* it loads what it would save now but for the LY byte, and is ticked on   *)
(* for more than a frame.  Here elapsed is the number of cycles ticked     *)
(* since the start or since the load, and calls is the number of loads     *)

\* LY bytes that no line has
BadLYValues == {LAST_LY + 1, 255}

\* the lines on which the file is loaded
LoadLines == {0, LAST_VISIBLE_LY, VBLANK_LY, LAST_LY}

\* tick would call scanline(LY) on a row that _scanlineparameters does not have
scanline_raises(cycles) ==
    /\ lcd_enable(LCDC) # 0
    /\ clock + cycles >= clock_target
    /\ next_stat_mode = 0
    /\ LY >= ROWS

\* tick up to the IndexError in scanline: the clock, the mode, the HBlank
\* budget and update_cache are done, the rest of the branch is not, and
\* nothing is returned
tick_raising(cycles) ==
    LET sm == set_mode(STAT, mode, 0)
    IN  /\ clock' = clock + cycles
        /\ mode' = sm.mode
        /\ STAT' = sm.value
        /\ clock_target' = clock_target + MODE0_CYCLES * Multiplier
        /\ clearcache' = FALSE
        /\ tiles_changed0' = {}
        /\ tilecache0' = update_cache(tilecache0, color_palette, BGP)
        /\ spritecache0' = update_cache(spritecache0, obj0_palette, OBP0)
        /\ spritecache1' = update_cache(spritecache1, obj1_palette, OBP1)
        /\ UNCHANGED <<LCDC, LY, LYC, next_stat_mode, frame_done, double_speed,
                       interrupt_flag, processing_ret, screenbuffer,
                       scanlineparameters, ly_window>>

TickBadLY ==
    /\ ~raised
    /\ calls = 0 => elapsed < FRAME_CYCLES
    /\ calls = 1 => elapsed < FRAME_CYCLES + MODE1_CYCLES
    /\ IF scanline_raises(LINE_THIRD)
       THEN tick_raising(LINE_THIRD) /\ raised' = TRUE
       ELSE tick(LINE_THIRD) /\ raised' = FALSE
    /\ elapsed' = elapsed + LINE_THIRD
    /\ UNCHANGED <<frames, dwell, longticks, offticks, memvars, index_reg,
                   palette_mem, f, sched, calls, saved, remaining>>

LoadBadLY ==
    /\ calls = 0
    /\ LY \in LoadLines
    /\ calls' = 1
    /\ \E v \in BadLYValues :
          load_state([LCD_save_state \o Renderer_save_state EXCEPT ![RegBase + 6] = v])
    /\ elapsed' = 0
    /\ UNCHANGED <<f, frames, dwell, longticks, offticks, sched, saved, cgbvars,
                   remaining>>

NextBadLY == TickBadLY \/ LoadBadLY

SpecBadLY == InitFrame /\ [][NextBadLY]_vars

----------------------------------------------------------------------------
(* The CGB palette registers: byte writes to an index register and to the  *)
(* colour register on it, and getcolor calls.  Here calls counts the       *)
(* register writes, frames the colour-register writes among them, and      *)
(* remaining is <<paletteindex, colorindex>> of the latest getcolor call   *)
(* since the last write, followed by the value it returned if it returned  *)

MaxPaletteWrites == 3

\* the bytes written to the index register: with and without bit 7, at the
\* last byte position and before it
IndexWrites == {0, 63, 128, 254, 255}

ColorWrites == {0, 171}

\* getcolor arguments: the ends of the valid ranges and the first value past them
PaletteArgs == {0, CGB_NUM_PALETTES - 1, CGB_NUM_PALETTES}

ColorArgs == {0, 3, 4}

\* PaletteIndexRegister.set
PaletteIndexRegister_set(reg, val) ==
    IF reg.value = val
    THEN reg
    ELSE [value    |-> val,
          hl       |-> val % 2,
          index    |-> (val \div 2) % 32,
          auto_inc |-> (val \div 128) % 2]

\* PaletteIndexRegister.shouldincrement without the 0x80
shouldincrement_NoAutoIncBit(reg) ==
    IF reg.auto_inc # 0
    THEN PaletteIndexRegister_set(reg, reg.value + 1)
    ELSE reg

\* PaletteIndexRegister.shouldincrement: new_val = 0x80 | (self.value + 1)
shouldincrement(reg) ==
    IF reg.auto_inc # 0
    THEN LET v == reg.value + 1
         IN  PaletteIndexRegister_set(reg, IF (v \div 128) % 2 = 1 THEN v ELSE v + 128)
    ELSE reg

\* the palette memory after PaletteColorRegister.set(val)
PaletteColorRegister_set(mem, reg, val) ==
    LET i_val == mem[reg.index]
    IN  [mem EXCEPT ![reg.index] =
            IF reg.hl # 0
            THEN (i_val % 256) + val * 256
            ELSE ((i_val \div 256) % 256) * 256 + val]

\* the index i of PaletteColorRegister.getcolor is outside palette_mem
getcolor_raises(mem, paletteindex, colorindex) ==
    paletteindex * 4 + colorindex \notin DOMAIN mem

\* a byte written to the index register
WriteIndex ==
    /\ ~raised
    /\ calls < MaxPaletteWrites
    /\ \E v \in IndexWrites : index_reg' = PaletteIndexRegister_set(index_reg, v)
    /\ calls' = calls + 1
    /\ remaining' = <<>>
    /\ UNCHANGED <<LCDC, STAT, mode, next_stat_mode, LY, LYC, clock, clock_target,
                   frame_done, double_speed, interrupt_flag, processing_ret,
                   memvars, rendvars, palette_mem, raised, f, obsvars, sched, saved>>

\* a byte written to the colour register
WriteColor ==
    /\ ~raised
    /\ calls < MaxPaletteWrites
    /\ \E v \in ColorWrites :
          palette_mem' = PaletteColorRegister_set(palette_mem, index_reg, v)
    /\ index_reg' = shouldincrement(index_reg)
    /\ calls' = calls + 1
    /\ frames' = frames + 1
    /\ remaining' = <<>>
    /\ UNCHANGED <<LCDC, STAT, mode, next_stat_mode, LY, LYC, clock, clock_target,
                   frame_done, double_speed, interrupt_flag, processing_ret,
                   memvars, rendvars, raised, f, elapsed, dwell, longticks,
                   offticks, sched, saved>>

\* PaletteColorRegister.getcolor(paletteindex, colorindex)
GetColor ==
    /\ ~raised
    /\ remaining = <<>>
    /\ \E p \in PaletteArgs, c \in ColorArgs :
          IF getcolor_raises(palette_mem, p, c)
          THEN raised' = TRUE /\ remaining' = <<p, c>>
          ELSE /\ raised' = FALSE
               /\ remaining' = <<p, c, PaletteColorRegister_getcolor(palette_mem, p, c)>>
    /\ UNCHANGED <<LCDC, STAT, mode, next_stat_mode, LY, LYC, clock, clock_target,
                   frame_done, double_speed, interrupt_flag, processing_ret,
                   memvars, rendvars, index_reg, palette_mem, f, obsvars, sched,
                   calls, saved>>

NextPalette == WriteIndex \/ WriteColor \/ GetColor

SpecPalette == Init /\ [][NextPalette]_vars

----------------------------------------------------------------------------
(* The scanline calls of whole frames: the LCD is switched on once and     *)
(* then ticked, by thirds of a line and by a bounded number of whole       *)
(* lines, through MaxFrames entries to VBlank.  Here frames counts the     *)
(* entries to VBlank and remaining is the sequence of the arguments y of   *)
(* the scanline calls that tick has made since the latest of them          *)

MaxFrames == 2

\* tick(cycles) reaches the HBlank branch, where it calls scanline(lcd, LY)
tick_calls_scanline(cycles) ==
    /\ lcd_enable(LCDC) # 0
    /\ clock + cycles >= clock_target
    /\ next_stat_mode = 0

EnableLines ==
    /\ lcd_enable(LCDC) = 0
    /\ set_lcdc(145)
    /\ UNCHANGED <<obsvars, restvars>>

TickLines ==
    /\ lcd_enable(LCDC) # 0
    /\ frames < MaxFrames
    /\ \E c \in TickCycles :
          /\ c > LINE_THIRD => longticks < MaxLongTicks
          /\ tick(c)
          /\ longticks' = IF c > LINE_THIRD THEN longticks + 1 ELSE longticks
          /\ remaining' = IF VBlankEntry THEN <<>>
                          ELSE IF tick_calls_scanline(c) THEN Append(remaining, LY)
                          ELSE remaining
    /\ frames' = IF VBlankEntry THEN frames + 1 ELSE frames
    /\ UNCHANGED <<elapsed, dwell, offticks, memvars, cgbvars, f, sched, calls, saved>>

NextLines == EnableLines \/ TickLines

SpecLines == Init /\ [][NextLines]_vars

----------------------------------------------------------------------------
(* The window line counter: the LCD is switched on, with and without the   *)
(* window, and off again, and ticked through the first lines of the frame; *)
(* the wait that follows an enable is ticked in one call.  Here sched      *)
(* counts the scanline calls and dwell the scanlines of the current frame  *)
(* on which the window was drawn; a frame ends with scanline(143) and with *)
(* the LCD being switched off                                              *)

MaxWindowLines == 4

\* LCD off; LCD on with the background only; LCD on with the window
LcdcWritesWindow == {0, 128 + 1, 128 + 32 + 1}

\* the condition under which scanline(y) draws the window
window_drawn(y) == BitAnd(LCDC, 32) # 0 /\ WY <= y /\ WX - 7 < COLS

TickWindow ==
    /\ lcd_enable(LCDC) # 0
    /\ sched < MaxWindowLines
    /\ \E c \in {LINE_THIRD, FRAME_CYCLES} :
          /\ IF clock_target - clock > MODE1_CYCLES
             THEN c = FRAME_CYCLES /\ longticks < MaxLongTicks
             ELSE c = LINE_THIRD
          /\ tick(c)
          /\ longticks' = IF c > LINE_THIRD THEN longticks + 1 ELSE longticks
          /\ sched' = IF tick_calls_scanline(c) THEN sched + 1 ELSE sched
          /\ dwell' = IF ~tick_calls_scanline(c) THEN dwell
                      ELSE IF LY = LAST_VISIBLE_LY THEN 0
                      ELSE IF window_drawn(LY) THEN dwell + 1
                      ELSE dwell
    /\ UNCHANGED <<elapsed, frames, offticks, memvars, cgbvars, f, calls, saved, remaining>>

SetLcdcWindow ==
    \E v \in LcdcWritesWindow :
        /\ set_lcdc(v)
        /\ dwell' = IF lcd_enable(v) = 0 THEN 0 ELSE dwell
        /\ UNCHANGED <<elapsed, frames, longticks, offticks, restvars>>

NextWindow == TickWindow \/ SetLcdcWindow

SpecWindow == Init /\ [][NextWindow]_vars

----------------------------------------------------------------------------
(* Writes around the HBlank of a line: from the start of a frame the LCD   *)
(* is ticked by thirds of a line through the first lines, the background   *)
(* is switched on, and tile data and SCX are written between the ticks.    *)
(* Here elapsed is the number of cycles ticked and calls the number of     *)
(* bytes written                                                           *)

ScrollWrites == {0, 8}

TickHBlank ==
    /\ elapsed < MaxLines * MODE1_CYCLES
    /\ tick(LINE_THIRD)
    /\ elapsed' = elapsed + LINE_THIRD
    /\ UNCHANGED <<frames, dwell, longticks, offticks, restvars>>

SetLcdcHBlank ==
    /\ LCDC # 128 + 16 + 1
    /\ set_lcdc(128 + 16 + 1)
    /\ UNCHANGED <<obsvars, restvars>>

\* a byte is stored in SCX
WriteScroll ==
    /\ calls < MaxWrites
    /\ \E v \in ScrollWrites : SCX' = v
    /\ calls' = calls + 1
    /\ UNCHANGED <<LCDC, STAT, mode, next_stat_mode, LY, LYC, clock, clock_target,
                   frame_done, double_speed, interrupt_flag, processing_ret,
                   cgb, VRAM0, OAM, BGP, OBP0, OBP1, SCY, WY, WX,
                   rendvars, f, obsvars, sched, saved, cgbvars, remaining>>

NextHBlank == TickHBlank \/ SetLcdcHBlank \/ WriteVRAM \/ WriteScroll

SpecHBlank == InitFrame /\ [][NextHBlank]_vars

----------------------------------------------------------------------------
(* Progress: the LCD is switched on once and never off, and tick is called *)
(* again and again, by thirds of a line and a bounded number of times by a *)
(* whole line; the frame is acknowledged at any time                       *)

MaxLiveLongTicks == 1

EnableLive ==
    /\ lcd_enable(LCDC) = 0
    /\ set_lcdc(128 + 16 + 1)
    /\ UNCHANGED <<obsvars, restvars>>

TickLive ==
    /\ lcd_enable(LCDC) # 0
    /\ \E c \in TickCycles :
          /\ c > LINE_THIRD => longticks < MaxLiveLongTicks
          /\ tick(c)
          /\ longticks' = IF c > LINE_THIRD THEN longticks + 1 ELSE longticks
    /\ UNCHANGED <<elapsed, frames, dwell, offticks, restvars>>

NextLive == EnableLive \/ TickLive \/ ProcessingFrameFrame

\* the caller keeps calling tick
SpecLive == Init /\ [][NextLive]_vars /\ WF_vars(TickLive)

----------------------------------------------------------------------------
(* Vocabulary of the properties *)

LcdOn == lcd_enable(LCDC) # 0

\* STAT bits 1..0
StatMode == STAT % 4

\* a step that is a call of tick
TickStep == \E c \in TickCycles \cup TickCyclesOff \cup {FRAME_CYCLES} : tick(c)

\* a step that is a call of set_lcdc with bit 7 clear
SetLcdcOffStep == \E v \in LcdcWrites : lcd_enable(v) = 0 /\ set_lcdc(v)

----------------------------------------------------------------------------
(* C1: between calls, 0 <= LY <= 153, and LY is in 144..153 exactly when   *)
(* the STAT mode is 1 (VBlank).                                            *)
C1_LYRangeAndVBlank ==
    /\ LY \in 0..LAST_LY
    /\ (LY \in VBLANK_LY..LAST_LY) <=> (StatMode = 1)

\* the last VBlank line has been reached with the LCD on
C1_Witness == LcdOn /\ LY = LAST_LY /\ StatMode = 1 /\ mode = 1

(* C3: with the LCD on, tick changes the STAT mode only along              *)
(* 2 -> 3 -> 0 -> (2 if LY < 143, else 1) and 1 -> 2 (from LY = 153); LY   *)
(* is incremented on entry to mode 2 and on every mode-1 line, wraps from  *)
(* 153 to 0 on the mode-2 entry that starts a frame, and changes at no     *)
(* other tick.                                                             *)
C3_ModeCycle ==
    [][LcdOn /\ TickStep =>
        /\ StatMode' # StatMode =>
              \/ StatMode = 2 /\ StatMode' = 3
              \/ StatMode = 3 /\ StatMode' = 0
              \/ StatMode = 0 /\ StatMode' = 2 /\ LY < LAST_VISIBLE_LY
              \/ StatMode = 0 /\ StatMode' = 1 /\ ~(LY < LAST_VISIBLE_LY)
              \/ StatMode = 1 /\ StatMode' = 2 /\ LY = LAST_LY
        /\ StatMode' = 2 /\ StatMode # 2 =>
              LY' = IF LY = LAST_LY THEN 0 ELSE LY + 1
        /\ StatMode' = 1 /\ clock + 1 > clock_target => LY' = LY + 1
        /\ LY' # LY => \/ StatMode' = 2 /\ StatMode # 2
                       \/ StatMode' = 1
    ]_vars

\* a new frame has started: mode 2 was entered from the last VBlank line
C3_Witness == LcdOn /\ StatMode = 2 /\ LY = 0

(* C10: set_lcdc(v) with bit 7 of v clear leaves LY = 0, STAT mode bits 0, *)
(* clock = 0 and clock_target = 70224; STAT bit 2 and the enable bits 3..6 *)
(* keep their values, and the value last returned by tick is untouched.    *)
C10_DisableResets ==
    [][SetLcdcOffStep =>
        /\ LY' = 0
        /\ StatMode' = 0
        /\ mode' = 0
        /\ clock' = 0
        /\ clock_target' = FRAME_CYCLES
        /\ BitAnd(STAT', 252) = BitAnd(STAT, 252)
        /\ interrupt_flag' = interrupt_flag
    ]_vars

\* switched off right after the tick that entered VBlank with every enable
\* bit set: LY = LYC = 0 with the coincidence flag still clear
C10_Witness ==
    /\ LCDC = 17 /\ LY = 0 /\ LYC = 0 /\ clock = 0
    /\ clock_target = FRAME_CYCLES
    /\ STAT = 128 + 120
    /\ interrupt_flag = INTR_VBLANK + INTR_LCDC

(* C6: with the LCD on, tick returns INTR_VBLANK and sets frame_done on    *)
(* exactly the call that advances LY to 144; no value returned by tick has *)
(* a bit other than VBLANK (1) and LCDC (2).                               *)
C6_VBlankOnLine144 ==
    [][TickStep =>
        /\ interrupt_flag' \in 0..(INTR_VBLANK + INTR_LCDC)
        /\ LcdOn =>
              /\ (BitAnd(interrupt_flag', INTR_VBLANK) # 0)
                    <=> (LY' = VBLANK_LY /\ LY # VBLANK_LY)
              /\ (LY' = VBLANK_LY /\ LY # VBLANK_LY) => frame_done'
              /\ frame_done' # frame_done => (LY' = VBLANK_LY /\ LY # VBLANK_LY)
    ]_vars

\* the tick that reached line 144 returned VBLANK alone and set frame_done
C6_Witness ==
    /\ LcdOn /\ LY = VBLANK_LY /\ StatMode = 1 /\ frame_done
    /\ interrupt_flag = INTR_VBLANK

(* C7: a tick that changes the STAT mode to m in {0,1,2} while enable bit  *)
(* m+3 is set returns INTR_LCDC; a tick that enters mode 3 returns nothing;*)
(* with bits 3..6 all clear no tick returns INTR_LCDC.                      *)
C7_ModeInterrupts ==
    [][LcdOn /\ TickStep =>
        /\ \A m \in 0..2 :
              StatMode' = m /\ StatMode # m /\ Bit(STAT, m + 3) = 1
                  => BitAnd(interrupt_flag', INTR_LCDC) # 0
        /\ StatMode' = 3 /\ StatMode # 3 => interrupt_flag' = 0
        /\ BitAnd(STAT, 120) = 0 => BitAnd(interrupt_flag', INTR_LCDC) = 0
    ]_vars

\* mode 0 was entered with only its enable bit set, and LCDC was returned
C7_Witness ==
    /\ LcdOn /\ StatMode = 0 /\ BitAnd(STAT, 120) = 8
    /\ interrupt_flag = INTR_LCDC /\ LY = 100

(* C5: immediately after every assignment to LY made by tick (mode-2       *)
(* increment or wrap, mode-1 increment), STAT bit 2 equals (LY = LYC),     *)
(* for every value of LYC.                                                 *)
C5_CoincidenceFlag ==
    [][LcdOn /\ TickStep /\ LY' # LY =>
        (Bit(STAT', 2) = 1) <=> (LY' = LYC')
    ]_vars

\* LY has moved past LYC = 143 into VBlank and the flag has been cleared
C5_Witness ==
    /\ LcdOn /\ LYC = LAST_VISIBLE_LY /\ LY = VBLANK_LY /\ Bit(STAT, 2) = 0

(* C8: with only the LYC interrupt enabled (STAT bit 6 set, bits 3..5      *)
(* clear) and LYC = L in 0..153, a tick returns INTR_LCDC exactly when it  *)
(* advances LY to L.                                                       *)
C8_LycInterrupt ==
    [][LcdOn /\ TickStep /\ BitAnd(STAT, 120) = 64 /\ LYC \in 0..LAST_LY =>
        (BitAnd(interrupt_flag', INTR_LCDC) # 0) <=> (LY' # LY /\ LY' = LYC)
    ]_vars

\* LYC = 40, STAT = 0x40 in the enable bits: the tick that made LY = 40 returned LCDC
C8_Witness ==
    /\ LcdOn /\ LYC = 40 /\ LY = 40 /\ BitAnd(STAT, 120) = 64
    /\ StatMode = 2 /\ interrupt_flag = INTR_LCDC

(* C2: from LY = 0 in mode 2 at the start of the line with the LCD on,     *)
(* once the tick arguments sum to 70224 (in any partition into calls)      *)
(* frame_done has become true exactly once and LY is 0 again.              *)
C2_FrameInFrameCycles ==
    elapsed = FRAME_CYCLES => frames = 1 /\ LY = 0

(* C9: with the LCD on, the value returned by tick is the OR of every      *)
(* interrupt whose trigger point by the mode cycle budgets lies in the     *)
(* cycle interval the call covers, also when it covers several.            *)
C9_ReturnAggregates ==
    [][LcdOn /\ TickStep /\ elapsed' # elapsed =>
        interrupt_flag' = BudgetFlags(elapsed, elapsed', STAT, LYC)
    ]_vars

(* C4: with the LCD on, single speed and every tick at most 80 cycles, a   *)
(* stay in mode 2, 3 or 0 lasts 80, 170 or 206 cycles and VBlank lasts     *)
(* 10 * 456 cycles, each to within one tick (less than 80 cycles off the   *)
(* budget), however the LCD came to be switched on.                        *)
C4_ModeDurations ==
    [][\A c \in DwellTickCycles :
        LcdOn /\ ~double_speed /\ tick(c) /\ mode' # mode /\ dwell >= 0 =>
            /\ dwell + c > ModeBudget(mode) - MODE2_CYCLES
            /\ dwell + c < ModeBudget(mode) + MODE2_CYCLES
    ]_vars

(* C11: while LCDC bit 7 is clear, tick returns 0 and leaves LY, STAT,     *)
(* clock_target and next_stat_mode unchanged; it adds the cycles to clock, *)
(* and when clock reaches 70224 it is reduced modulo 70224, frame_done is  *)
(* set and every framebuffer pixel becomes color_palette[0]; over the      *)
(* 70224 cycles ticked after a disable frame_done is set exactly once, by  *)
(* the tick that completes them.                                           *)
C11_DisabledTick ==
    [][\A c \in OffTickCycles :
          ~LcdOn /\ tick(c) =>
             /\ interrupt_flag' = 0
             /\ UNCHANGED <<LY, STAT, clock_target, next_stat_mode>>
             /\ IF clock + c >= FRAME_CYCLES
                THEN /\ clock' = (clock + c) % FRAME_CYCLES
                     /\ frame_done'
                     /\ \A y \in ScreenRows : \A x \in ScreenCols :
                           screenbuffer'[y][x] = color_palette[0]
                ELSE /\ clock' = clock + c
                     /\ UNCHANGED <<frame_done, screenbuffer>>
             /\ frames' = IF elapsed' = FRAME_CYCLES THEN 1 ELSE 0]_vars

\* a frame of cycles has been ticked since the LCD was switched off after
\* it had rendered line 143 from the tile cache
C11_Witness ==
    /\ ~LcdOn /\ elapsed = FRAME_CYCLES /\ frames = 1 /\ frame_done
    /\ scanlineparameters[LAST_VISIBLE_LY][5] # 0
    /\ \A y \in ScreenRows : \A x \in ScreenCols :
          screenbuffer[y][x] = color_palette[0]

C13_ProcessingFrame ==
    /\ [](frames = IF frame_done THEN 1 ELSE 0)
    /\ [][processing_frame =>
             /\ processing_ret' = ~frame_done
             /\ ~frame_done'
             /\ ~frame_done => UNCHANGED <<LCDC, STAT, mode, next_stat_mode, LY,
                                           LYC, clock, clock_target, frame_done,
                                           double_speed, interrupt_flag,
                                           memvars, rendvars>>]_vars

\* the call after a completed frame has reported it: it returned false and
\* left the flag reset, with LY in VBlank where tick set the flag
C13_Witness ==
    /\ ~processing_ret /\ ~frame_done /\ frames = 0
    /\ LcdOn /\ LY = VBLANK_LY

(* C14: with the LCD on and the mode in {1, 2, 3}, cycles_to_mode0() is    *)
(* the number of cycles that must still be ticked, one at a time, until    *)
(* the mode next becomes 0, at either speed; in mode 0 it is 0.  So once   *)
(* it has been asked, what is left of it is positive while the mode is not *)
(* 0 and is 0 when the mode becomes 0.                                     *)
C14_CyclesToMode0 ==
    remaining # <<>> =>
        IF mode = 0 THEN remaining[1] = 0 ELSE remaining[1] > 0

(* C15: set_stat(v) leaves STAT = (old STAT & 0b1000_0111) | (v &          *)
(* 0b0111_1000): bit 7, the LYC flag (bit 2) and the mode bits (1..0) keep *)
(* their values and bits 6..3 take those of v.  So after any sequence of   *)
(* tick, set_stat and set_lcdc calls STAT bit 7 is 1 and STAT bits 1..0    *)
(* are the controller's current mode.                                      *)
C15_StatReadOnlyBits ==
    /\ [](Bit(STAT, 7) = 1 /\ StatMode = mode)
    /\ [][\A v \in StatWrites :
             set_stat(v) =>
                /\ STAT' % 8 = STAT % 8
                /\ Bit(STAT', 7) = Bit(STAT, 7)
                /\ (STAT' \div 8) % 16 = (v \div 8) % 16]_vars

\* set_stat(0xFF) has been called in mode 3 with the LYC flag clear: the
\* enable bits are all set and the read-only bits are the controller's
C15_Witness ==
    /\ LcdOn /\ mode = 3 /\ LY = 1
    /\ STAT = 128 + 120 + 3

(* C16: with sprites enabled, every pixel that scanline_sprites(ly) changes *)
(* is covered by, and takes the pixel of, one of the first 10 OAM entries   *)
(* in address order that intersect line ly; an 11th or later intersecting   *)
(* entry changes no pixel                                                   *)
C16_SpriteCap ==
    [][\A ly \in {LY} :
          calls' = calls + 1 /\ BitAnd(LCDC, 2) # 0 =>
             LET OnLine(i) == OAM[4 * i] - 16 <= ly
                              /\ ly < OAM[4 * i] - 16 + spriteheight
                 FirstTen == {i \in OAMEntries :
                                 /\ OnLine(i)
                                 /\ Cardinality({j \in OAMEntries :
                                                    j < i /\ OnLine(j)}) < 10}
             IN  \A px \in ScreenCols :
                    screenbuffer'[ly][px] # screenbuffer[ly][px] =>
                       \E i \in FirstTen :
                          /\ sprite_x(i) <= px /\ px < sprite_x(i) + 8
                          /\ screenbuffer'[ly][px] =
                                sprite_pixel(i, ly, px, spritecache0, spritecache1)]_vars

\* a call was made on a line that more than 10 entries intersect: a column
\* that only an 11th or later entry covers, with an opaque pixel, kept the
\* background, and a column of the first ten shows a sprite
C16_Witness ==
    /\ calls = 1
    /\ \E ly \in {LY} :
          /\ Cardinality(Intersecting(ly)) > SPRITE_CAP
          /\ \E i \in Intersecting(ly) \ sprites_to_render(ly) :
                \E px \in ScreenCols :
                   /\ sprite_x(i) <= px /\ px < sprite_x(i) + 8
                   /\ ~HasCol0(sprite_pixel(i, ly, px, spritecache0, spritecache1))
                   /\ \A j \in sprites_to_render(ly) : px >= sprite_x(j) + 8
                   /\ HasCol0(screenbuffer[ly][px])
          /\ \E px \in ScreenCols : \E j \in sprites_to_render(ly) :
                /\ ~HasCol0(screenbuffer[ly][px])
                /\ screenbuffer[ly][px] =
                      sprite_pixel(j, ly, px, spritecache0, spritecache1)

(* C17: on the DMG, where two or more selected sprites cover a pixel of     *)
(* line ly with non-transparent pixels, scanline_sprites(ly) leaves there   *)
(* the pixel of the one with the smallest x', the smallest OAM index among  *)
(* equal x', whatever the attribute bits and the pixel underneath           *)
C17_DmgSmallerXWins ==
    [][\A ly \in {LY} :
          calls' = calls + 1 /\ ~cgb /\ BitAnd(LCDC, 2) # 0 =>
             \A px \in ScreenCols :
                LET Cover == {i \in sprites_to_render(ly) :
                                 /\ sprite_x(i) <= px /\ px < sprite_x(i) + 8
                                 /\ ~HasCol0(sprite_pixel(i, ly, px,
                                                          spritecache0, spritecache1))}
                IN  Cardinality(Cover) >= 2 =>
                       \E a \in Cover :
                          /\ \A b \in Cover \ {a} :
                                \/ sprite_x(a) < sprite_x(b)
                                \/ sprite_x(a) = sprite_x(b) /\ a < b
                          /\ screenbuffer'[ly][px] =
                                sprite_pixel(a, ly, px, spritecache0, spritecache1)]_vars

(* C18: on the CGB, where two selected sprites cover a pixel of line ly     *)
(* with non-transparent pixels of different colour, scanline_sprites(ly)    *)
(* never leaves there the pixel of the one with the larger OAM index        *)
C18_CgbSmallerIndexWins ==
    [][\A ly \in {LY} :
          calls' = calls + 1 /\ cgb /\ BitAnd(LCDC, 2) # 0 =>
             \A px \in ScreenCols :
                LET Cover == {i \in sprites_to_render(ly) :
                                 /\ sprite_x(i) <= px /\ px < sprite_x(i) + 8
                                 /\ ~HasCol0(sprite_pixel(i, ly, px,
                                                          spritecache0, spritecache1))}
                IN  \A a \in Cover : \A b \in Cover :
                       /\ a < b
                       /\ sprite_pixel(a, ly, px, spritecache0, spritecache1)
                             # sprite_pixel(b, ly, px, spritecache0, spritecache1)
                       => screenbuffer'[ly][px] #
                             sprite_pixel(b, ly, px, spritecache0, spritecache1)]_vars

(* C19: whenever tick has rendered a scanline, from the first one on, the  *)
(* tile cache and both sprite caches hold for every tile the decoding of    *)
(* the current VRAM bytes through the current palettes, the dirty set is    *)
(* empty and clearcache is false                                            *)
C19_CacheDecodesVRAM ==
    [][mode = 3 /\ mode' = 0 /\ lcd_enable(LCDC') # 0 =>
          /\ tilecache0' = decoded_cache(color_palette, BGP)'
          /\ spritecache0' = decoded_cache(obj0_palette, OBP0)'
          /\ spritecache1' = decoded_cache(obj1_palette, OBP1)'
          /\ tiles_changed0' = {}
          /\ ~clearcache']_vars

(* C20: load_state applied to what save_state wrote restores LCDC, BGP,     *)
(* OBP0, OBP1, STAT in all 8 bits, LY, LYC, SCY, SCX, WY, WX and            *)
(* double_speed to the saved values and every logged scanline parameter     *)
(* tuple to the saved tuple, and sets clearcache                            *)
C20_LoadRestoresSaved ==
    [][calls' = calls + 1 /\ f # <<>> =>
          /\ LCDC' = saved.LCDC
          /\ BGP' = saved.BGP /\ OBP0' = saved.OBP0 /\ OBP1' = saved.OBP1
          /\ STAT' = saved.STAT
          /\ LY' = saved.LY /\ LYC' = saved.LYC
          /\ SCY' = saved.SCY /\ SCX' = saved.SCX
          /\ WY' = saved.WY /\ WX' = saved.WX
          /\ double_speed' = saved.double_speed
          /\ scanlineparameters' = saved.scanlineparameters
          /\ clearcache']_vars

(* C21: after load_state has left LY above 153 with the LCD on, no tick    *)
(* fails, and once 70224 cycles have been ticked LY is in 0..153 and is in  *)
(* 144..153 exactly when the STAT mode is 1                                 *)
C21_BadLYSelfCorrects ==
    calls = 1 /\ LcdOn =>
       /\ ~raised
       /\ elapsed >= FRAME_CYCLES =>
             /\ LY \in 0..LAST_LY
             /\ (LY \in VBLANK_LY..LAST_LY) <=> (StatMode = 1)


\* C22: a getcolor call with paletteindex > 7 or colorindex > 3 completes
\* and returns a value, it does not end in an out-of-range access, and it
\* leaves the palette memory as it was
C22_OutOfRangeGetcolorReturns ==
    /\ [](remaining # <<>> /\ (remaining[1] > 7 \/ remaining[2] > 3)
             => ~raised /\ Len(remaining) = 3)
    /\ [][remaining' # <<>> /\ remaining = <<>> => palette_mem' = palette_mem]_vars


\* C27: a byte written to the colour register changes only the low byte
\* (hl = 0) or only the high byte (hl = 1) of palette_mem[index] and no
\* other entry; with auto_inc set the cursor then advances by one byte
\* position, from (31, high) round to (0, low), and auto_inc stays set;
\* without auto_inc the index register is left as it was
C27_ColorWriteAdvancesCursor ==
    [][frames' = frames + 1 =>
          LET i == index_reg.index
              pos == 2 * index_reg.index + index_reg.hl
          IN  /\ \A j \in DOMAIN palette_mem \ {i} : palette_mem'[j] = palette_mem[j]
              /\ IF index_reg.hl = 0
                 THEN palette_mem'[i] \div 256 = palette_mem[i] \div 256
                 ELSE palette_mem'[i] % 256 = palette_mem[i] % 256
              /\ IF index_reg.auto_inc # 0
                 THEN /\ 2 * index_reg'.index + index_reg'.hl = (pos + 1) % 64
                      /\ index_reg'.auto_inc = 1
                 ELSE index_reg' = index_reg]_vars

\* a colour write has taken the cursor from (31, high) round to (0, low)
C27_Witness ==
    /\ frames > 0
    /\ index_reg.index = 0 /\ index_reg.hl = 0 /\ index_reg.auto_inc = 1
    /\ index_reg.value > 255
    /\ palette_mem[31] # PALETTE_MEM_INIT[31]

\* C29: whatever bytes are written to the index and colour registers, the
\* index register's get() stays within 0..255 and its decoded fields agree
\* with it: hl = value & 1, index = (value >> 1) & 31, auto_inc = (value >> 7) & 1
C29_IndexRegisterStaysByte ==
    /\ index_reg.value \in 0..255
    /\ index_reg.hl = index_reg.value % 2
    /\ index_reg.index = (index_reg.value \div 2) % 32
    /\ index_reg.auto_inc = (index_reg.value \div 128) % 2


(* C26: on a pixel of line ly that exactly one selected sprite covers: on   *)
(* the CGB with LCDC bit 0 set, when the pixel underneath carries            *)
(* BG_PRIORITY_FLAG or the sprite has attribute bit 7, scanline_sprites(ly)  *)
(* changes the pixel only if the pixel underneath is colour 0 and the        *)
(* sprite's pixel is opaque; and in every mode a transparent sprite pixel    *)
(* leaves the pixel as it was                                               *)
C26_TransparentSpritePixelKeepsBuffer ==
    [][\A ly \in {LY} :
          calls' = calls + 1 /\ BitAnd(LCDC, 2) # 0 =>
             \A px \in ScreenCols :
                LET Cover == {i \in sprites_to_render(ly) :
                                 sprite_x(i) <= px /\ px < sprite_x(i) + 8}
                IN  \A i \in Cover :
                       LET pixel == sprite_pixel(i, ly, px, spritecache0, spritecache1)
                           old == screenbuffer[ly][px]
                       IN  Cover = {i} =>
                              /\ HasCol0(pixel) => screenbuffer'[ly][px] = old
                              /\ /\ cgb /\ BitAnd(LCDC, 1) # 0
                                 /\ HasBgPriority(old) \/ BitAnd(OAM[4 * i + 3], 128) # 0
                                 /\ screenbuffer'[ly][px] # old
                                 => HasCol0(old) /\ ~HasCol0(pixel)]_vars


(* C24: with the LCD continuously enabled, between two successive entries   *)
(* to VBlank tick has called scanline(y) exactly once for each y in 0..143, *)
(* in increasing order of y, and it never calls scanline with y >= 144      *)
C24_ScanlineOncePerLine ==
    [][/\ VBlankEntry /\ frames >= 1 => remaining = [k \in 1..ROWS |-> k - 1]
       /\ \A k \in DOMAIN remaining' : remaining'[k] < ROWS]_vars

\* the second entry to VBlank has been made, with whole-line ticks on the way
C24_Witness ==
    /\ frames >= 2 /\ LY = VBLANK_LY /\ mode = 1
    /\ longticks > 0
    /\ remaining = <<>>


(* C25: in every frame, the first after construction and one that follows   *)
(* a disable and enable in mid-frame included, the first scanline on which  *)
(* the window is drawn uses ly_window = 0 and each further one the next     *)
(* value; a scanline leaves ly_window one higher when it draws the window   *)
(* and unchanged when it does not, and scanline(143) leaves it at -1        *)
C25_WindowCounterStartsAtZero ==
    [][sched' = sched + 1 =>
          /\ window_drawn(LY) => ly_window + 1 = dwell
          /\ ly_window' = IF LY = LAST_VISIBLE_LY THEN -1
                          ELSE IF window_drawn(LY) THEN ly_window + 1
                          ELSE ly_window]_vars


C28_FramesKeepComing ==
    /\ []<>(LCDC < 128 \/ (LY = VBLANK_LY /\ interrupt_flag % 2 = INTR_VBLANK /\ frame_done))
    /\ []<>(LCDC < 128 \/ LY # VBLANK_LY)
    /\ []<>(LCDC < 128 \/ mode # 0)
    /\ []<>(LCDC < 128 \/ mode # 1)
    /\ []<>(LCDC < 128 \/ mode # 2)
    /\ []<>(LCDC < 128 \/ mode # 3)

\* VBlank has just been entered, with INTR_VBLANK returned and frame_done
\* set, after whole-line ticks and after the clock has wrapped with the frame
C28_Witness ==
    /\ LcdOn
    /\ longticks > 0
    /\ LY = VBLANK_LY /\ mode = 1
    /\ BitAnd(interrupt_flag, INTR_VBLANK) # 0
    /\ frame_done
    /\ clock < FRAME_CYCLES

====
